---- MODULE Spec2Model ----
(***************************************************************************)
(* Model of the family-tree editor (src/components/FamilyTreeApp.tsx):     *)
(* the layout pipeline (sortSiblings, calculateLayout,                     *)
(* generateEdgesFromPersons, buildFlowElements) as operators computed the  *)
(* way the code computes them, and the component's handlers (add, save,    *)
(* delete, reorder, undo, redo, import, reset) as actions over the person  *)
(* list, the undo history and the rendered flow.                           *)
(*                                                                         *)
(* A person is a record [id, relationship, isRepresentative, parentIds,    *)
(* spouseId]; the display-only fields (name, gender, notes, ...) have no   *)
(* effect on any modelled operation and are left out.  An absent spouseId  *)
(* is the empty string (every test in the code is a truthiness test), an   *)
(* absent parentIds the empty sequence (every use goes through             *)
(* `if (p.parentIds)` or `?.`).  X coordinates are exact rationals         *)
(* [n, d]: the code's divisions by 2 and by the number of parent           *)
(* positions are modelled without rounding.                                *)
(***************************************************************************)
EXTENDS Integers, Sequences, FiniteSets, TLC

VARIABLES
    persons,        \* personsRef.current
    personHistory,  \* the undo/redo snapshots
    historyIndex,   \* 0-based index into personHistory, -1 before the first push
    settings,       \* the display settings
    flow,           \* what rebuildFlow last handed to setNodes / setEdges
    isMobile,       \* the viewport class (window.innerWidth < 768)
    clock,          \* Date.now(), counted in additions
    lastOp,         \* the handler that ran last ("none" before the mount effect)
    lastCut         \* how many snapshots that handler removed from the end of
                    \* the history before it pushed its own

vars == <<persons, personHistory, historyIndex, settings, flow, isMobile, clock,
          lastOp, lastCut>>

----------------------------------------------------------------------------
(* Identifiers.  JavaScript compares ids as strings (Array.prototype.sort, *)
(* localeCompare); IdOrder lists the ids of the model in that order.       *)

NoId == ""

IdOrder == <<"1", "2", "3", "4", "9", "p1", "p2", "p3">>

IdRank(id) == CHOOSE i \in 1..Len(IdOrder) : IdOrder[i] = id

\* a.localeCompare(b) < 0, and the order of the default Array.prototype.sort
IdLess(a, b) == IdRank(a) < IdRank(b)

----------------------------------------------------------------------------
(* Generic sequence helpers (Array.prototype.filter / map / find / sort).  *)

Range(s) == {s[i] : i \in 1..Len(s)}

RECURSIVE Flatten(_)
Flatten(ss) == IF ss = <<>> THEN <<>> ELSE Head(ss) \o Flatten(Tail(ss))

\* Array.prototype.sort with a comparator that is a strict weak order
\* (Less(a, b) iff the comparator is negative): a stable sort.  Element i
\* lands after every element that is smaller, and after every earlier
\* element that compares equal.
StableSort(s, Less(_, _)) ==
    LET pos(i) == 1 + Cardinality({j \in 1..Len(s) :
                        \/ Less(s[j], s[i])
                        \/ (~Less(s[i], s[j]) /\ j < i)})
    IN  [k \in 1..Len(s) |-> s[CHOOSE i \in 1..Len(s) : pos(i) = k]]

\* Array.prototype.join
RECURSIVE Join(_, _)
Join(s, sep) ==
    IF s = <<>> THEN ""
    ELSE IF Len(s) = 1 THEN s[1]
         ELSE s[1] \o sep \o Join(Tail(s), sep)

\* [...ids].sort(): the default sort of strings
SortIds(ids) == StableSort(ids, IdLess)

RECURSIVE Dedup(_)
\* the distinct elements of s in order of first occurrence (the key order
\* of a JavaScript Map or Set filled by iterating s)
Dedup(s) ==
    IF s = <<>> THEN <<>>
    ELSE LET front == Dedup(SubSeq(s, 1, Len(s) - 1))
         IN  IF s[Len(s)] \in Range(front) THEN front
             ELSE Append(front, s[Len(s)])

----------------------------------------------------------------------------
(* src/types/familyTree.ts                                                 *)

\* childSortOrder[relationship] ?? 99
childSortOrder(rel) ==
    CASE rel = "eldest_son"      -> 1
      [] rel = "eldest_daughter" -> 2
      [] rel = "second_son"      -> 3
      [] rel = "second_daughter" -> 4
      [] rel = "third_son"       -> 5
      [] rel = "third_daughter"  -> 6
      [] rel = "grandchild"      -> 10
      [] rel = "other"           -> 99
      [] OTHER                   -> 99

Person(id, rel, rep, parents, spouse) ==
    [id |-> id, relationship |-> rel, isRepresentative |-> rep,
     parentIds |-> parents, spouseId |-> spouse]

\* sampleData.nodes
sampleData ==
    << Person("1", "self", TRUE, <<>>, "2"),
       Person("2", "spouse", FALSE, <<>>, "1"),
       Person("3", "eldest_son", FALSE, <<"1", "2">>, NoId) >>

----------------------------------------------------------------------------
(* Lookups over a person list.                                             *)

IdsOf(ps) == {ps[i].id : i \in 1..Len(ps)}

\* new Map(ps.map(p => [p.id, p])).get(id): the last person with that id
PersonOf(ps, id) ==
    ps[CHOOSE i \in 1..Len(ps) :
          ps[i].id = id /\ \A j \in (i+1)..Len(ps) : ps[j].id # id]

----------------------------------------------------------------------------
(* generateEdgesFromPersons                                                *)

RelEdge(id, source, target, type) ==
    [id |-> id, source |-> source, target |-> target, type |-> type]

\* [person.id, person.spouseId].sort().join('-')
SpouseKey(a, b) == Join(SortIds(<<a, b>>), "-")

\* the parent-child edges of one person, in parentIds order
ParentEdgesOf(p) ==
    [k \in 1..Len(p.parentIds) |->
        RelEdge("e" \o p.parentIds[k] \o "-" \o p.id,
                p.parentIds[k], p.id, "parent-child")]

\* a faulty variant that pushes a spouse edge for every spouseId, without
\* looking the pair's key up in spouseEdgeSet
SpouseEdgeOfEveryLink(person, spouseEdgeSet) ==
    IF person.spouseId # NoId
    THEN << RelEdge("spouse-" \o SpouseKey(person.id, person.spouseId),
                    person.id, person.spouseId, "spouse") >>
    ELSE <<>>

\* the spouse edge pushed for one person: none when the person has no
\* spouseId or the pair's key is already in spouseEdgeSet
SpouseEdgeOf(person, spouseEdgeSet) ==
    IF person.spouseId # NoId
       /\ SpouseKey(person.id, person.spouseId) \notin spouseEdgeSet
    THEN << RelEdge("spouse-" \o SpouseKey(person.id, person.spouseId),
                    person.id, person.spouseId, "spouse") >>
    ELSE <<>>

\* spouseEdgeSet after one person
SpouseEdgeSetAfter(person, spouseEdgeSet) ==
    IF person.spouseId # NoId
    THEN spouseEdgeSet \cup {SpouseKey(person.id, person.spouseId)}
    ELSE spouseEdgeSet

RECURSIVE GenerateEdgesLoop(_, _, _)
\* the loop over persons: edges so far, spouseEdgeSet so far
GenerateEdgesLoop(ps, edges, spouseEdgeSet) ==
    IF ps = <<>> THEN edges
    ELSE GenerateEdgesLoop(Tail(ps),
            edges \o ParentEdgesOf(Head(ps)) \o SpouseEdgeOf(Head(ps), spouseEdgeSet),
            SpouseEdgeSetAfter(Head(ps), spouseEdgeSet))

generateEdgesFromPersons(ps) == GenerateEdgesLoop(ps, <<>>, {})

----------------------------------------------------------------------------
(* sortSiblings                                                            *)

\* [...p.parentIds].sort().join(',')
ParentKey(p) == Join(SortIds(p.parentIds), ",")

HasParents(p) == Len(p.parentIds) > 0

\* a faulty variant of the comparator: the ids alone decide
SiblingLessById(a, b) == IdLess(a.id, b.id)

\* the comparator of siblings.sort: rank from childSortOrder, then id
SiblingLess(a, b) ==
    IF childSortOrder(a.relationship) # childSortOrder(b.relationship)
    THEN childSortOrder(a.relationship) < childSortOrder(b.relationship)
    ELSE IdLess(a.id, b.id)

\* noParent: the persons without parents, in list order
NoParentOf(ps) == SelectSeq(ps, LAMBDA p : ~HasParents(p))

\* the parent keys of the persons of `withParents`, one per person
ParentKeysOf(withParents) ==
    [i \in 1..Len(withParents) |-> ParentKey(withParents[i])]

\* the keys of parentGroupMap in insertion order
GroupKeysOf(ps) == Dedup(ParentKeysOf(SelectSeq(ps, HasParents)))

\* parentGroupMap.get(key) after the per-group sort
SortedGroup(ps, key) ==
    StableSort(SelectSeq(ps, LAMBDA p : HasParents(p) /\ ParentKey(p) = key),
               SiblingLess)

\* the sorted groups in the key order of parentGroupMap, concatenated
GroupsInOrder(ps, keys) ==
    Flatten([k \in 1..Len(keys) |-> SortedGroup(ps, keys[k])])

\* a faulty variant that numbers the sibling groups before the persons
\* without parents
OrderMapSeqGroupsFirst(ps) == GroupsInOrder(ps, GroupKeysOf(ps)) \o NoParentOf(ps)

\* the persons in the order in which orderMap numbers them
OrderMapSeq(ps) == NoParentOf(ps) \o GroupsInOrder(ps, GroupKeysOf(ps))

\* orderMap.get(id) ?? 0: a later set of the same id overwrites
OrderMapGet(ordered, id) ==
    IF \E i \in 1..Len(ordered) : ordered[i].id = id
    THEN (CHOOSE i \in 1..Len(ordered) :
            ordered[i].id = id /\ \A j \in (i+1)..Len(ordered) : ordered[j].id # id) - 1
    ELSE 0

\* [...persons].sort((a, b) => orderMap.get(a.id) - orderMap.get(b.id))
SortByOrderMap(ps, ordered) ==
    StableSort(ps, LAMBDA a, b :
                      OrderMapGet(ordered, a.id) < OrderMapGet(ordered, b.id))

sortSiblings(ps) == SortByOrderMap(ps, OrderMapSeq(ps))

----------------------------------------------------------------------------
(* Exact rational arithmetic for the x coordinates.                        *)

Abs(i) == IF i < 0 THEN -i ELSE i

RECURSIVE GCD(_, _)
GCD(a, b) == IF b = 0 THEN a ELSE GCD(b, a % b)

\* n / d with d > 0, reduced by the common divisor g
Reduced(n, d, g) == [n |-> n \div g, d |-> d \div g]

\* n / d in lowest terms, d > 0
Rat(n, d) == Reduced(n, d, GCD(Abs(n), d))

RatInt(i) == [n |-> i, d |-> 1]

RatAdd(a, b) == Rat(a.n * b.d + b.n * a.d, a.d * b.d)

RatSub(a, b) == Rat(a.n * b.d - b.n * a.d, a.d * b.d)

RatDivInt(a, k) == Rat(a.n, a.d * k)

RatLess(a, b) == a.n * b.d < b.n * a.d

RatLeq(a, b) == a.n * b.d <= b.n * a.d

RECURSIVE RatSum(_)
RatSum(s) == IF s = <<>> THEN RatInt(0) ELSE RatAdd(Head(s), RatSum(Tail(s)))

----------------------------------------------------------------------------
(* calculateLayout: constants by viewport class                            *)

SPOUSE_GAP(mobile) == IF mobile THEN 140 ELSE 160

SIBLING_GAP(mobile) == IF mobile THEN 160 ELSE 200

GENERATION_GAP(mobile) == IF mobile THEN 180 ELSE 220

NODE_WIDTH(mobile) == IF mobile THEN 110 ELSE 130

----------------------------------------------------------------------------
(* calculateLayout: root selection and BFS generation assignment           *)

\* a faulty variant of the root selection: always the first person
RootOfFirst(sorted) == sorted[1]

\* sorted.find(isRepresentative) ?? sorted.find(relationship === 'self') ?? sorted[0]
RootOf(sorted) ==
    IF \E i \in 1..Len(sorted) : sorted[i].isRepresentative
    THEN SelectSeq(sorted, LAMBDA p : p.isRepresentative)[1]
    ELSE IF \E i \in 1..Len(sorted) : sorted[i].relationship = "self"
         THEN SelectSeq(sorted, LAMBDA p : p.relationship = "self")[1]
         ELSE sorted[1]

\* the entries one person contributes to childrenOf.get(id): its own id,
\* once per occurrence of id in its parentIds
ChildEntries(p, id) ==
    [k \in 1..Len(SelectSeq(p.parentIds, LAMBDA pid : pid = id)) |-> p.id]

\* childrenOf.get(id) ?? [], persons in sorted order
ChildrenOf(sorted, id) ==
    Flatten([i \in 1..Len(sorted) |-> ChildEntries(sorted[i], id)])

\* the guarded visit of the BFS loop: set the generation, mark, enqueue
BfsVisit(st, known, id, gen) ==
    IF id \notin st.visited /\ id \in known
    THEN [generationOf |-> (id :> gen) @@ st.generationOf,
          visited      |-> st.visited \cup {id},
          queue        |-> Append(st.queue, id),
          enqueued     |-> Append(st.enqueued, id)]
    ELSE st

RECURSIVE BfsVisitAll(_, _, _, _)
BfsVisitAll(st, known, ids, gen) ==
    IF ids = <<>> THEN st
    ELSE BfsVisitAll(BfsVisit(st, known, Head(ids), gen), known, Tail(ids), gen)

\* a faulty variant of the spouse branch: the spouse is placed one
\* generation below
BfsSpouseBelow(st, known, current, currentGen) ==
    IF current.spouseId # NoId
    THEN BfsVisit(st, known, current.spouseId, currentGen + 1)
    ELSE st

\* the spouse branch of one iteration
BfsSpouse(st, known, current, currentGen) ==
    IF current.spouseId # NoId
    THEN BfsVisit(st, known, current.spouseId, currentGen)
    ELSE st

\* a faulty variant of the body of one iteration: the parents are placed
\* below the dequeued person, as the children are
BfsExpandParentsBelow(st, sorted, known, current, currentGen) ==
    BfsSpouse(
        BfsVisitAll(
            BfsVisitAll(st, known, current.parentIds, currentGen + 1),
            known, ChildrenOf(sorted, current.id), currentGen + 1),
        known, current, currentGen)

\* a faulty variant of the body of one iteration: the spouse is tested
\* against the visited set as it was when the person was dequeued
BfsExpandStaleSpouse(st, sorted, known, current, currentGen) ==
    LET family == BfsVisitAll(
                      BfsVisitAll(st, known, current.parentIds, currentGen - 1),
                      known, ChildrenOf(sorted, current.id), currentGen + 1)
    IN  IF /\ current.spouseId # NoId
           /\ current.spouseId \notin st.visited
           /\ current.spouseId \in known
        THEN [generationOf |-> (current.spouseId :> currentGen) @@ family.generationOf,
              visited      |-> family.visited \cup {current.spouseId},
              queue        |-> Append(family.queue, current.spouseId),
              enqueued     |-> Append(family.enqueued, current.spouseId)]
        ELSE family

\* the body of one iteration for the dequeued person: parents, then
\* children, then spouse
BfsExpand(st, sorted, known, current, currentGen) ==
    BfsSpouse(
        BfsVisitAll(
            BfsVisitAll(st, known, current.parentIds, currentGen - 1),
            known, ChildrenOf(sorted, current.id), currentGen + 1),
        known, current, currentGen)

\* one iteration of `while (queue.length > 0)`
BfsStep(st, sorted) ==
    BfsExpand([st EXCEPT !.queue = Tail(st.queue)], sorted, IdsOf(sorted),
              PersonOf(sorted, Head(st.queue)), st.generationOf[Head(st.queue)])

RECURSIVE BfsLoop(_, _)
BfsLoop(st, sorted) ==
    IF st.queue = <<>> THEN st ELSE BfsLoop(BfsStep(st, sorted), sorted)

\* a faulty variant of the start: the root is not marked as visited
BfsStartUnvisited(rootId) ==
    [generationOf |-> (rootId :> 0),
     visited      |-> {},
     queue        |-> <<rootId>>,
     enqueued     |-> <<rootId>>]

\* the traversal state before the loop
BfsStart(rootId) ==
    [generationOf |-> (rootId :> 0),
     visited      |-> {rootId},
     queue        |-> <<rootId>>,
     enqueued     |-> <<rootId>>]

\* the traversal state when the while loop ends
BfsResult(sorted) == BfsLoop(BfsStart(RootOf(sorted).id), sorted)

\* a faulty variant of the default: the persons not reached are put one
\* generation below the root
WithDefaultGenerationBelow(generationOf, ids) ==
    [id \in ids |-> IF id \in DOMAIN generationOf THEN generationOf[id] ELSE 1]

\* `if (!generationOf.has(p.id)) generationOf.set(p.id, 0)`
WithDefaultGeneration(generationOf, ids) ==
    [id \in ids |-> IF id \in DOMAIN generationOf THEN generationOf[id] ELSE 0]

\* generationOf after the default for the persons the BFS did not reach
GenerationOf(sorted) ==
    WithDefaultGeneration(BfsResult(sorted).generationOf, IdsOf(sorted))

----------------------------------------------------------------------------
(* calculateLayout: generation grouping and Pass 1 (unit construction)     *)

\* the numbers of `gens` in ascending order
Ascending(gens) ==
    [g \in 1..Cardinality(gens) |->
        CHOOSE x \in gens : Cardinality({y \in gens : y < x}) = g - 1]

\* Array.from(generations.keys()).sort((a, b) => a - b)
SortedGens(sorted, generationOf) ==
    Ascending({generationOf[id] : id \in IdsOf(sorted)})

\* generations.get(gen): the persons of one generation in sorted order
GenPersons(sorted, generationOf, gen) ==
    SelectSeq(sorted, LAMBDA p : generationOf[p.id] = gen)

\* spousePairs.get(id): set for every person with a truthy spouseId
SpousePairsGet(sorted, id) ==
    IF \E i \in 1..Len(sorted) : sorted[i].id = id /\ sorted[i].spouseId # NoId
    THEN sorted[CHOOSE i \in 1..Len(sorted) :
                   /\ sorted[i].id = id /\ sorted[i].spouseId # NoId
                   /\ \A j \in (i+1)..Len(sorted) :
                         ~(sorted[j].id = id /\ sorted[j].spouseId # NoId)].spouseId
    ELSE NoId

Unit(ids, width, centerX) == [ids |-> ids, width |-> width, centerX |-> centerX]

\* a faulty variant that pairs a person with a spouse of any generation
UnitForAnyGeneration(personId, spouseId, genIds, placed, mobile) ==
    IF spouseId # NoId /\ spouseId \notin placed
    THEN Unit(<<personId, spouseId>>, SPOUSE_GAP(mobile) + NODE_WIDTH(mobile), RatInt(0))
    ELSE Unit(<<personId>>, NODE_WIDTH(mobile), RatInt(0))

\* the unit pushed for a person not yet placed
UnitFor(personId, spouseId, genIds, placed, mobile) ==
    IF spouseId # NoId /\ spouseId \in genIds /\ spouseId \notin placed
    THEN Unit(<<personId, spouseId>>, SPOUSE_GAP(mobile) + NODE_WIDTH(mobile), RatInt(0))
    ELSE Unit(<<personId>>, NODE_WIDTH(mobile), RatInt(0))

RECURSIVE BuildUnitsLoop(_, _, _, _, _, _)
\* the loop over genPersons: rest to walk, placed set, units so far
BuildUnitsLoop(rest, genIds, sorted, placed, units, mobile) ==
    IF rest = <<>> THEN units
    ELSE IF Head(rest).id \in placed
         THEN BuildUnitsLoop(Tail(rest), genIds, sorted, placed, units, mobile)
         ELSE LET unit == UnitFor(Head(rest).id,
                                  SpousePairsGet(sorted, Head(rest).id),
                                  genIds, placed, mobile)
              IN  BuildUnitsLoop(Tail(rest), genIds, sorted,
                                 placed \cup Range(unit.ids),
                                 Append(units, unit), mobile)

\* the units of the persons of one generation
UnitsOfPersons(genPersons, sorted, mobile) ==
    BuildUnitsLoop(genPersons, IdsOf(genPersons), sorted, {}, <<>>, mobile)

\* genUnits.get(gen) after Pass 1
BuildUnits(sorted, generationOf, gen, mobile) ==
    UnitsOfPersons(GenPersons(sorted, generationOf, gen), sorted, mobile)

----------------------------------------------------------------------------
(* calculateLayout: Pass 2 (horizontal placement)                          *)

HalfWidth(u) == Rat(u.width, 2)

\* currentX at the left edge of the next unit: the gap is added from the
\* second unit on
LeftEdge(currentX, done, mobile) ==
    IF done = <<>> THEN currentX ELSE currentX + SIBLING_GAP(mobile)

RECURSIVE PlaceLoop(_, _, _, _)
\* the first loop of placeUnits: units still to place, currentX, placed so far
PlaceLoop(rest, currentX, done, mobile) ==
    IF rest = <<>> THEN [units |-> done, totalWidth |-> currentX]
    ELSE PlaceLoop(Tail(rest),
                   LeftEdge(currentX, done, mobile) + Head(rest).width,
                   Append(done,
                          [Head(rest) EXCEPT !.centerX =
                              RatAdd(RatInt(LeftEdge(currentX, done, mobile)),
                                     HalfWidth(Head(rest)))]),
                   mobile)

\* the second loop of placeUnits: `u.centerX -= offset`
ShiftUnits(units, offset) ==
    [i \in 1..Len(units) |->
        [units[i] EXCEPT !.centerX = RatSub(units[i].centerX, offset)]]

\* the units laid left to right, then centred on 0
CenterLaid(laid) == ShiftUnits(laid.units, Rat(laid.totalWidth, 2))

placeUnits(units, mobile) == CenterLaid(PlaceLoop(units, 0, <<>>, mobile))

\* parentUnits.find(u => u.ids.includes(pid)): its centerX, as a sequence of
\* zero or one element
ParentUnitCenter(parentUnits, pid) ==
    IF \E i \in 1..Len(parentUnits) : pid \in Range(parentUnits[i].ids)
    THEN << SelectSeq(parentUnits, LAMBDA u : pid \in Range(u.ids))[1].centerX >>
    ELSE <<>>

\* the parent positions one member contributes: one per parentId whose
\* parent unit is found
MemberParentPositions(parentIds, parentUnits) ==
    Flatten([k \in 1..Len(parentIds) |-> ParentUnitCenter(parentUnits, parentIds[k])])

\* parentPositions of one unit
ParentPositions(unit, sorted, parentUnits) ==
    Flatten([m \in 1..Len(unit.ids) |->
        IF unit.ids[m] \in IdsOf(sorted)
        THEN MemberParentPositions(PersonOf(sorted, unit.ids[m]).parentIds, parentUnits)
        ELSE <<>>])

\* a faulty variant of the centering: a center pushed several times counts
\* once in the average
CenterOnDistinct(unit, parentPositions) ==
    IF Len(parentPositions) > 0
    THEN [unit EXCEPT !.centerX =
            RatDivInt(RatSum(Dedup(parentPositions)), Len(Dedup(parentPositions)))]
    ELSE unit

\* `if (parentPositions.length > 0) unit.centerX = avgX`
CenterOn(unit, parentPositions) ==
    IF Len(parentPositions) > 0
    THEN [unit EXCEPT !.centerX =
            RatDivInt(RatSum(parentPositions), Len(parentPositions))]
    ELSE unit

\* the parent-centering of one unit
CenterUnit(unit, sorted, parentUnits) ==
    CenterOn(unit, ParentPositions(unit, sorted, parentUnits))

\* minX of a unit of half-width `half` placed after prev
MinXAfter(prev, half, mobile) ==
    RatAdd(RatAdd(RatAdd(prev.centerX, HalfWidth(prev)),
                  RatInt(SIBLING_GAP(mobile))), half)

\* a faulty variant of the push: the unit stays where parent-centering put it
PushRightNever(u, minX) == u

\* `if (units[i].centerX < minX) units[i].centerX = minX`
PushRight(u, minX) ==
    IF RatLess(u.centerX, minX) THEN [u EXCEPT !.centerX = minX] ELSE u

RECURSIVE ResolveLoop(_, _, _)
\* the overlap-resolution walk over the units sorted by centerX
ResolveLoop(rest, done, mobile) ==
    IF rest = <<>> THEN done
    ELSE IF done = <<>> THEN ResolveLoop(Tail(rest), <<Head(rest)>>, mobile)
    ELSE ResolveLoop(Tail(rest),
                     Append(done,
                            PushRight(Head(rest),
                                      MinXAfter(done[Len(done)],
                                                HalfWidth(Head(rest)), mobile))),
                     mobile)

\* units.sort((a, b) => a.centerX - b.centerX)
SortByCenter(units) ==
    StableSort(units, LAMBDA a, b : RatLess(a.centerX, b.centerX))

\* the sort followed by the walk
ResolveOverlaps(units, mobile) == ResolveLoop(SortByCenter(units), <<>>, mobile)

\* the units of one lower generation after parent-centering
CenterUnits(units, sorted, parentUnits) ==
    [i \in 1..Len(units) |-> CenterUnit(units[i], sorted, parentUnits)]

\* genUnits.get(sortedGens[gi]) after Pass 2, given the placed units of the
\* generation above
PlaceLowerGeneration(units, sorted, parentUnits, mobile) ==
    ResolveOverlaps(CenterUnits(units, sorted, parentUnits), mobile)

\* the placed generations with the next lower generation appended
AppendLower(above, units, sorted, mobile) ==
    Append(above, PlaceLowerGeneration(units, sorted, above[Len(above)], mobile))

RECURSIVE PlacedGenUnits(_, _, _, _, _)
\* the placed units of sortedGens[1..gi], top generation first
PlacedGenUnits(sorted, generationOf, sortedGens, gi, mobile) ==
    IF gi = 1
    THEN << placeUnits(BuildUnits(sorted, generationOf, sortedGens[1], mobile), mobile) >>
    ELSE AppendLower(PlacedGenUnits(sorted, generationOf, sortedGens, gi - 1, mobile),
                     BuildUnits(sorted, generationOf, sortedGens[gi], mobile),
                     sorted, mobile)

----------------------------------------------------------------------------
(* calculateLayout: Pass 3 (node positions) and the whole function         *)

Pos(x, y) == [x |-> x, y |-> y]

\* the positions.set calls of one unit, in order
UnitPositions(unit, y, mobile) ==
    IF Len(unit.ids) = 2
    THEN << <<unit.ids[1], Pos(RatSub(unit.centerX, Rat(SPOUSE_GAP(mobile), 2)), y)>>,
            <<unit.ids[2], Pos(RatAdd(unit.centerX, Rat(SPOUSE_GAP(mobile), 2)), y)>> >>
    ELSE << <<unit.ids[1], Pos(unit.centerX, y)>> >>

\* the positions.set calls of one generation
GenerationPositions(units, y, mobile) ==
    Flatten([u \in 1..Len(units) |-> UnitPositions(units[u], y, mobile)])

\* every positions.set call of Pass 3, in order
PositionSets(sortedGens, genUnits, mobile) ==
    Flatten([g \in 1..Len(sortedGens) |->
        GenerationPositions(genUnits[g],
                            (sortedGens[g] - sortedGens[1]) * GENERATION_GAP(mobile),
                            mobile)])

\* a Map filled by the set calls of `sets`: a later set of a key overwrites
MapOfSets(sets) ==
    [k \in {sets[i][1] : i \in 1..Len(sets)} |->
        sets[CHOOSE i \in 1..Len(sets) :
                sets[i][1] = k /\ \A j \in (i+1)..Len(sets) : sets[j][1] # k][2]]

\* the results of the passes gathered
LayoutRecord(sorted, generationOf, sortedGens, genUnits, mobile) ==
    [sorted |-> sorted, generationOf |-> generationOf,
     sortedGens |-> sortedGens, genUnits |-> genUnits,
     positions |-> MapOfSets(PositionSets(sortedGens, genUnits, mobile))]

\* Pass 1 and Pass 2 for known generations
LayoutUnits(sorted, generationOf, sortedGens, mobile) ==
    LayoutRecord(sorted, generationOf, sortedGens,
                 PlacedGenUnits(sorted, generationOf, sortedGens,
                                Len(sortedGens), mobile),
                 mobile)

\* the grouping by generation
LayoutGens(sorted, generationOf, mobile) ==
    LayoutUnits(sorted, generationOf, SortedGens(sorted, generationOf), mobile)

\* the layout of a sibling-sorted list
LayoutSorted(sorted, mobile) == LayoutGens(sorted, GenerationOf(sorted), mobile)

\* every intermediate result of calculateLayout on a non-empty list
LayoutOf(ps, mobile) == LayoutSorted(sortSiblings(ps), mobile)

\* a faulty variant without the guard for the empty list: `root.id` raises
\* on an undefined root and no map is returned
calculateLayoutUnguarded(ps, mobile) ==
    IF Len(ps) = 0 THEN [raised |-> TRUE] ELSE LayoutOf(ps, mobile).positions

\* the position map returned: empty for an empty list
calculateLayout(ps, mobile) ==
    IF Len(ps) = 0 THEN <<>> ELSE LayoutOf(ps, mobile).positions

----------------------------------------------------------------------------
(* buildFlowElements                                                       *)

FlowEdge(id, source, target, type) ==
    [id |-> id, source |-> source, target |-> target, type |-> type]

ParentChildEdges(relEdges) == SelectSeq(relEdges, LAMBDA e : e.type = "parent-child")

\* the targets of the edges of `edges`, one per edge
TargetsOf(edges) == [i \in 1..Len(edges) |-> edges[i].target]

\* the sources of the edges of `edges`, one per edge
SourcesOf(edges) == [i \in 1..Len(edges) |-> edges[i].source]

\* the keys of childParents in insertion order
ChildParentsKeys(relEdges) == Dedup(TargetsOf(ParentChildEdges(relEdges)))

\* childParents.get(childId): the sources of its parent-child edges in order
ChildParentsGet(relEdges, childId) ==
    SourcesOf(SelectSeq(relEdges,
                LAMBDA e : e.type = "parent-child" /\ e.target = childId))

\* twoParentChildren
TwoParentChildren(relEdges) ==
    {c \in Range(ChildParentsKeys(relEdges)) : Len(ChildParentsGet(relEdges, c)) = 2}

\* a faulty variant of the pair key: the parent ids joined as recorded
PairKeyAsRecorded(parentIds) == Join(parentIds, "-")

\* [...parentIds].sort().join('-')
PairKey(parentIds) == Join(SortIds(parentIds), "-")

JunctionId(pairKey) == "junction-" \o pairKey

\* a faulty variant of the junction node: it sits under the first parent
JunctionNodeAtFirstParent(pairKey, pos1, pos2) ==
    [id |-> JunctionId(pairKey),
     x  |-> pos1.x,
     y  |-> (IF pos1.y > pos2.y THEN pos1.y ELSE pos2.y) + 100]

\* the junction node of a parent pair at positions pos1 and pos2
JunctionNode(pairKey, pos1, pos2) ==
    [id |-> JunctionId(pairKey),
     x  |-> RatDivInt(RatAdd(pos1.x, pos2.x), 2),
     y  |-> (IF pos1.y > pos2.y THEN pos1.y ELSE pos2.y) + 100]

\* `if (!spouseJunctions.has(pairKey))` with both positions known: the
\* junction node is pushed and the key recorded
JunctionCreate(acc, parentIds, pairKey, positions) ==
    IF /\ pairKey \notin acc.spouseJunctions
       /\ parentIds[1] \in DOMAIN positions
       /\ parentIds[2] \in DOMAIN positions
    THEN [acc EXCEPT
            !.junctionNodes = Append(@, JunctionNode(pairKey, positions[parentIds[1]],
                                                     positions[parentIds[2]])),
            !.spouseJunctions = @ \cup {pairKey}]
    ELSE acc

\* `if (jId) edges.push(...)`: the connector from the junction to the child
JunctionConnect(acc, childId, pairKey) ==
    IF pairKey \in acc.spouseJunctions
    THEN [acc EXCEPT !.edges =
            Append(@, FlowEdge("e-" \o JunctionId(pairKey) \o "-" \o childId,
                               JunctionId(pairKey), childId, "smoothstep"))]
    ELSE acc

\* a faulty variant of the loop body: a child with more than two parents
\* is fed from the junction of its first two
JunctionVisitTwoOrMore(acc, childId, parentIds, positions) ==
    IF Len(parentIds) >= 2
    THEN JunctionConnect(JunctionCreate(acc, parentIds, PairKey(SubSeq(parentIds, 1, 2)),
                                        positions),
                         childId, PairKey(SubSeq(parentIds, 1, 2)))
    ELSE acc

\* the body of the loop over childParents for one child
JunctionVisit(acc, childId, parentIds, positions) ==
    IF Len(parentIds) = 2
    THEN JunctionConnect(JunctionCreate(acc, parentIds, PairKey(parentIds), positions),
                         childId, PairKey(parentIds))
    ELSE acc

RECURSIVE JunctionLoop(_, _, _, _)
\* the loop over childParents: children still to walk, and the junction
\* nodes, spouseJunctions keys and edges built so far
JunctionLoop(rest, relEdges, positions, acc) ==
    IF rest = <<>> THEN acc
    ELSE JunctionLoop(Tail(rest), relEdges, positions,
                      JunctionVisit(acc, Head(rest),
                                    ChildParentsGet(relEdges, Head(rest)), positions))

\* the connector of an ordinary edge
OrdinaryEdge(e) ==
    FlowEdge(e.id, e.source, e.target,
             IF e.type = "spouse" THEN "straight" ELSE "smoothstep")

\* the relationship edges the second loop keeps: every spouse edge, and
\* every parent-child edge whose target is not in twoParentChildren
KeptEdges(relEdges, twoParentChildren) ==
    SelectSeq(relEdges, LAMBDA e : e.type = "spouse" \/ e.target \notin twoParentChildren)

\* the connectors of the kept edges
ConnectorsOf(kept) == [i \in 1..Len(kept) |-> OrdinaryEdge(kept[i])]

\* the edges of the second loop
OrdinaryEdges(relEdges) == ConnectorsOf(KeptEdges(relEdges, TwoParentChildren(relEdges)))

\* the result: junction connectors first, then the ordinary connectors
FlowElements(merged, ordinary) ==
    [edges |-> merged.edges \o ordinary, junctionNodes |-> merged.junctionNodes]

buildFlowElements(relEdges, positions) ==
    FlowElements(JunctionLoop(ChildParentsKeys(relEdges), relEdges, positions,
                              [junctionNodes |-> <<>>, spouseJunctions |-> {},
                               edges |-> <<>>]),
                 OrdinaryEdges(relEdges))

----------------------------------------------------------------------------
(* rebuildFlow: what setNodes / setEdges receive                           *)

\* positions.get(person.id) || { x: 0, y: 0 }
NodePosition(positions, id) ==
    IF id \in DOMAIN positions THEN positions[id] ELSE Pos(RatInt(0), 0)

\* the person nodes, the junction nodes and the connectors handed over
FlowState(ps, positions, built) ==
    [personNodes |-> [i \in 1..Len(ps) |->
                        [id |-> ps[i].id,
                         position |-> NodePosition(positions, ps[i].id)]],
     junctionNodes |-> built.junctionNodes,
     edges |-> built.edges]

\* the connectors for known positions and relationship edges
FlowOf(ps, positions, relEdges) ==
    FlowState(ps, positions, buildFlowElements(relEdges, positions))

rebuildFlow(ps, mobile) ==
    FlowOf(ps, calculateLayout(ps, mobile), generateEdgesFromPersons(ps))

----------------------------------------------------------------------------
(* The component state: bounds of the model and constants of the code      *)

\* at most this many snapshots are pushed in a run of the model
MaxHistory == 2

\* persons are added only below this list length
MaxPersons == 4

\* at most this many persons are added in a run of the model
MaxClock == 1

\* the edit dialog is submitted only while the history holds at most this
\* many snapshots
MaxFormDepth == 1

\* pushHistory: `if (newHist.length > 50) newHist.shift()`
HISTORY_LIMIT == 50

\* pushHistory: `Math.min(prev + 1, 49)`
HISTORY_LAST_INDEX == 49

Min(a, b) == IF a < b THEN a ELSE b

defaultSettings == [showName |-> TRUE, showNotes |-> FALSE, colorByGender |-> TRUE]

\* JSON.parse(JSON.stringify(persons)): a copy, field by field
Snapshot(ps) ==
    [i \in 1..Len(ps) |->
        Person(ps[i].id, ps[i].relationship, ps[i].isRepresentative,
               [k \in 1..Len(ps[i].parentIds) |-> ps[i].parentIds[k]],
               ps[i].spouseId)]

\* a faulty variant of pushHistory: the oldest snapshot is never dropped
pushHistoryUncapped(hist, idx, closureIndex, ps) ==
    LET kept == SubSeq(hist, 1, Min(closureIndex + 1, Len(hist)))
    IN  [personHistory |-> Append(kept, Snapshot(ps)),
         historyIndex  |-> Min(idx + 1, HISTORY_LAST_INDEX),
         cut           |-> Len(hist) - Len(kept)]

\* a faulty variant of pushHistory: the snapshots after the cursor are kept
pushHistoryAppendOnly(hist, idx, closureIndex, ps) ==
    LET newHist == Append(hist, Snapshot(ps))
    IN  [personHistory |-> IF Len(newHist) > HISTORY_LIMIT THEN Tail(newHist)
                           ELSE newHist,
         historyIndex  |-> Min(idx + 1, HISTORY_LAST_INDEX),
         cut           |-> 0]

\* pushHistory as seen by a caller whose closure captured historyIndex =
\* closureIndex: the two functional state updates applied to (hist, idx)
pushHistory(hist, idx, closureIndex, ps) ==
    LET kept == SubSeq(hist, 1, Min(closureIndex + 1, Len(hist)))
        newHist == Append(kept, Snapshot(ps))
    IN  [personHistory |-> IF Len(newHist) > HISTORY_LIMIT THEN Tail(newHist)
                           ELSE newHist,
         historyIndex  |-> Min(idx + 1, HISTORY_LAST_INDEX),
         cut           |-> Len(hist) - Len(kept)]

\* the model's cap on the history it explores: a push by a caller whose
\* closure captured closureIndex leaves at most MaxHistory snapshots and a
\* cursor below MaxHistory
RoomToPush(closureIndex) ==
    /\ Min(closureIndex + 1, Len(personHistory)) < MaxHistory
    /\ historyIndex + 1 < MaxHistory

Mounted == lastOp # "none"

\* updatePersons(ps): pushHistory with the current render's historyIndex,
\* then rebuildFlow
UpdatePersons(ps, op) ==
    LET pushed == pushHistory(personHistory, historyIndex, historyIndex, ps)
    IN  /\ persons' = ps
        /\ personHistory' = pushed.personHistory
        /\ historyIndex' = pushed.historyIndex
        /\ flow' = rebuildFlow(ps, isMobile)
        /\ lastOp' = op
        /\ lastCut' = pushed.cut
        /\ UNCHANGED <<settings, isMobile>>

----------------------------------------------------------------------------
(* Documents: what the initial load restores and what an import reads      *)

\* a document as the editor writes it: FamilyTreeData without the version
Doc(nodes, docSettings) ==
    [nodes |-> nodes, settings |-> docSettings,
     edges |-> generateEdgesFromPersons(nodes)]

notesSettings == [showName |-> TRUE, showNotes |-> TRUE, colorByGender |-> FALSE]

\* a couple with a daughter and a son, the son listed last with the parents
\* in the other order
SiblingsDoc ==
    Doc(<< Person("1", "self", TRUE, <<>>, "2"),
           Person("2", "spouse", FALSE, <<>>, "1"),
           Person("3", "eldest_daughter", FALSE, <<"1", "2">>, NoId),
           Person("4", "eldest_son", FALSE, <<"2", "1">>, NoId) >>, defaultSettings)

\* three generations, no representative, the child listed first
GenerationsDoc ==
    Doc(<< Person("3", "eldest_son", FALSE, <<"2">>, NoId),
           Person("2", "self", FALSE, <<"1">>, NoId),
           Person("1", "other", FALSE, <<>>, NoId) >>, notesSettings)

\* references to an id that names no person
DanglingDoc ==
    Doc(<< Person("1", "other", FALSE, <<"9">>, "9"),
           Person("2", "other", FALSE, <<"1", "9">>, NoId) >>, defaultSettings)

\* a person who is their own parent and spouse, a child with three parents
SelfLinkDoc ==
    Doc(<< Person("1", "self", TRUE, <<"1">>, "1"),
           Person("2", "other", TRUE, <<>>, NoId),
           Person("3", "other", FALSE, <<"1", "2", "4">>, NoId),
           Person("4", "other", FALSE, <<>>, NoId) >>, defaultSettings)

SampleDoc == Doc(sampleData, defaultSettings)

\* a couple
CoupleDoc ==
    Doc(<< Person("1", "self", TRUE, <<>>, "2"),
           Person("2", "spouse", FALSE, <<>>, "1") >>, defaultSettings)

ImportDocs == {SampleDoc, SiblingsDoc, GenerationsDoc, DanglingDoc, SelfLinkDoc}

----------------------------------------------------------------------------
(* Initial state and the initial-load effect                               *)

EmptyFlow == [personNodes |-> <<>>, junctionNodes |-> <<>>, edges |-> <<>>]

Init ==
    /\ persons = <<>>
    /\ personHistory = <<>>
    /\ historyIndex = -1
    /\ settings = defaultSettings
    /\ flow = EmptyFlow
    /\ isMobile \in BOOLEAN
    /\ clock = 0
    /\ lastOp = "none"
    /\ lastCut = 0

\* useEffect(..., []): restore the autosaved document when there is one and
\* the user confirms, the sample data otherwise
InitialLoad(doc) ==
    LET pushed == pushHistory(personHistory, historyIndex, -1, doc.nodes)
    IN  /\ ~Mounted
        /\ settings' = doc.settings
        /\ persons' = doc.nodes
        /\ flow' = rebuildFlow(doc.nodes, isMobile)
        /\ personHistory' = pushed.personHistory
        /\ historyIndex' = pushed.historyIndex
        /\ lastOp' = "load"
        /\ lastCut' = pushed.cut
        /\ UNCHANGED <<isMobile, clock>>

----------------------------------------------------------------------------
(* Handlers                                                                *)

\* `p${Date.now()}`
NewPersonId == "p" \o ToString(clock + 1)

handleAddPerson ==
    /\ Mounted
    /\ clock' = clock + 1
    /\ UpdatePersons(Append(persons, Person(NewPersonId, "other", FALSE, <<>>, NoId)),
                     "add")

\* allPersons.map(p => p.id === id ? { ...p, spouseId } : p)
SetSpouseOf(ps, id, spouseId) ==
    [i \in 1..Len(ps) |->
        IF ps[i].id = id THEN [ps[i] EXCEPT !.spouseId = spouseId] ELSE ps[i]]

\* allPersons.map(p => p.id === id && p.spouseId === of ? { ...p, spouseId: undefined } : p)
ClearSpouseIfOf(ps, id, of) ==
    [i \in 1..Len(ps) |->
        IF ps[i].id = id /\ ps[i].spouseId = of
        THEN [ps[i] EXCEPT !.spouseId = NoId] ELSE ps[i]]

\* personsRef.current.find(p => p.id === id)?.spouseId, NoId when absent
OldSpouseOf(ps, id) ==
    IF \E i \in 1..Len(ps) : ps[i].id = id
    THEN ps[CHOOSE i \in 1..Len(ps) :
               ps[i].id = id /\ \A j \in 1..(i-1) : ps[j].id # id].spouseId
    ELSE NoId

\* the list handleSavePerson hands to updatePersons
SavePersonResult(ps, updatedPerson) ==
    LET replaced == [i \in 1..Len(ps) |->
                        IF ps[i].id = updatedPerson.id THEN updatedPerson ELSE ps[i]]
        \* 1. the chosen spouse points back
        linked == IF updatedPerson.spouseId # NoId
                  THEN SetSpouseOf(replaced, updatedPerson.spouseId, updatedPerson.id)
                  ELSE replaced
        oldSpouse == OldSpouseOf(ps, updatedPerson.id)
        \* 2. the previous spouse lets go
        released == IF oldSpouse # NoId /\ oldSpouse # updatedPerson.spouseId
                    THEN ClearSpouseIfOf(linked, oldSpouse, updatedPerson.id)
                    ELSE linked
        \* 3. spouse removed: the other side lets go
    IN  IF updatedPerson.spouseId = NoId /\ oldSpouse # NoId
        THEN ClearSpouseIfOf(released, oldSpouse, updatedPerson.id)
        ELSE released

\* the sequences over `ids` of length at most n
RECURSIVE DistinctSeqs(_, _)
DistinctSeqs(ids, n) ==
    IF n = 0 THEN {<<>>}
    ELSE LET shorter == DistinctSeqs(ids, n - 1)
         IN  shorter \cup {Append(q, x) : q \in shorter, x \in ids}

\* no id twice
Distinct(q) == \A i, j \in 1..Len(q) : q[i] = q[j] => i = j

\* at most this many parents are ticked in the dialog
MaxParents == 2

\* the relationships the dialog is used to set in the model
FormRelationships == {"self", "eldest_son", "eldest_daughter", "other"}

\* what the edit dialog can submit for person p: p with one field changed.
\* The spouse select and the parent checkboxes offer the other persons.
FormsFor(ps, p) ==
    LET others == IdsOf(ps) \ {p.id}
    IN  {[p EXCEPT !.relationship = r] : r \in FormRelationships \ {p.relationship}}
        \cup {[p EXCEPT !.isRepresentative = ~p.isRepresentative]}
        \cup {[p EXCEPT !.spouseId = sp] : sp \in (others \cup {NoId}) \ {p.spouseId}}
        \cup {[p EXCEPT !.parentIds = par] :
                par \in {q \in DistinctSeqs(others, MaxParents) : Distinct(q)} \ {p.parentIds}}

handleSavePerson(updatedPerson) ==
    /\ Mounted
    /\ UpdatePersons(SavePersonResult(persons, updatedPerson), "save")
    /\ UNCHANGED clock

\* a faulty variant of the deletion: spouse references are left as they are
DeleteKeepingSpouse(ps, personId) ==
    LET kept == SelectSeq(ps, LAMBDA p : p.id # personId)
    IN  [i \in 1..Len(kept) |->
            [kept[i] EXCEPT
                !.parentIds = SelectSeq(kept[i].parentIds, LAMBDA id : id # personId)]]

\* the list handleDeletePerson hands to updatePersons
DeletePersonResult(ps, personId) ==
    LET kept == SelectSeq(ps, LAMBDA p : p.id # personId)
    IN  [i \in 1..Len(kept) |->
            [kept[i] EXCEPT
                !.parentIds = SelectSeq(kept[i].parentIds, LAMBDA id : id # personId),
                !.spouseId = IF kept[i].spouseId = personId THEN NoId
                             ELSE kept[i].spouseId]]

handleDeletePerson(personId) ==
    /\ Mounted
    /\ UpdatePersons(DeletePersonResult(persons, personId), "delete")
    /\ UNCHANGED clock

\* MemberTable.moveUp(index), index 0-based: swap with the row above
MoveUp(ps, index) ==
    [i \in 1..Len(ps) |->
        IF i = index THEN ps[index + 1]
        ELSE IF i = index + 1 THEN ps[index] ELSE ps[i]]

\* MemberTable.moveDown(index), index 0-based: swap with the row below
MoveDown(ps, index) ==
    [i \in 1..Len(ps) |->
        IF i = index + 1 THEN ps[index + 2]
        ELSE IF i = index + 2 THEN ps[index + 1] ELSE ps[i]]

handleReorder(newPersons) ==
    /\ Mounted
    /\ UpdatePersons(newPersons, "reorder")
    /\ UNCHANGED clock

\* `if (historyIndex > 0)` and `if (prev)`
CanUndo == historyIndex > 0 /\ historyIndex - 1 < Len(personHistory)

\* `if (historyIndex < personHistory.length - 1)`
CanRedo == historyIndex < Len(personHistory) - 1

handleUndo ==
    /\ Mounted
    /\ CanUndo
    /\ historyIndex' = historyIndex - 1
    /\ persons' = personHistory[historyIndex]
    /\ flow' = rebuildFlow(personHistory[historyIndex], isMobile)
    /\ lastOp' = "undo"
    /\ lastCut' = 0
    /\ UNCHANGED <<personHistory, settings, isMobile, clock>>

handleRedo ==
    /\ Mounted
    /\ CanRedo
    /\ historyIndex' = historyIndex + 1
    /\ persons' = personHistory[historyIndex + 2]
    /\ flow' = rebuildFlow(personHistory[historyIndex + 2], isMobile)
    /\ lastOp' = "redo"
    /\ lastCut' = 0
    /\ UNCHANGED <<personHistory, settings, isMobile, clock>>

\* a faulty variant of the import: the connectors are built from the edges
\* stored in the document
handleFileChangeStoredEdges(doc) ==
    LET pushed == pushHistory(personHistory, historyIndex, -1, doc.nodes)
    IN  /\ Mounted
        /\ settings' = doc.settings
        /\ persons' = doc.nodes
        /\ flow' = FlowOf(doc.nodes, calculateLayout(doc.nodes, isMobile), doc.edges)
        /\ personHistory' = pushed.personHistory
        /\ historyIndex' = pushed.historyIndex
        /\ lastOp' = "import"
        /\ lastCut' = pushed.cut
        /\ UNCHANGED <<isMobile, clock>>

\* handleFileChange / loadData on a well-formed document.  handleFileChange
\* is memoised with no dependencies, so the loadData and pushHistory it
\* calls are those of the first render, where historyIndex is -1.
handleFileChange(doc) ==
    LET pushed == pushHistory(personHistory, historyIndex, -1, doc.nodes)
    IN  /\ Mounted
        /\ settings' = doc.settings
        /\ persons' = doc.nodes
        /\ flow' = rebuildFlow(doc.nodes, isMobile)
        /\ personHistory' = pushed.personHistory
        /\ historyIndex' = pushed.historyIndex
        /\ lastOp' = "import"
        /\ lastCut' = pushed.cut
        /\ UNCHANGED <<isMobile, clock>>

\* handleReset after the user confirms: the history is emptied and the
\* empty list pushed
handleReset ==
    LET pushed == pushHistory(<<>>, -1, historyIndex, <<>>)
    IN  /\ Mounted
        /\ persons' = <<>>
        /\ flow' = rebuildFlow(<<>>, isMobile)
        /\ personHistory' = pushed.personHistory
        /\ historyIndex' = pushed.historyIndex
        /\ lastOp' = "reset"
        /\ lastCut' = Len(personHistory)
        /\ UNCHANGED <<settings, isMobile, clock>>

----------------------------------------------------------------------------
(* The editor: every handler, from the initial load on.  The history and   *)
(* the list are kept within the bounds of the model.                       *)

\* a person can be added within the bounds
RoomToAdd == Len(persons) < MaxPersons /\ clock < MaxClock

\* the edit dialog can be submitted within the bounds
RoomToSave == Len(personHistory) <= MaxFormDepth /\ RoomToPush(historyIndex)

Next ==
    \/ \E doc \in ImportDocs : InitialLoad(doc)
    \/ RoomToAdd /\ RoomToPush(historyIndex) /\ handleAddPerson
    \/ \E i \in 1..Len(persons) : \E form \in FormsFor(persons, persons[i]) :
          RoomToSave /\ handleSavePerson(form)
    \/ \E id \in IdsOf(persons) : RoomToPush(historyIndex) /\ handleDeletePerson(id)
    \/ \E index \in 1..(Len(persons) - 1) :
          RoomToPush(historyIndex) /\ handleReorder(MoveUp(persons, index))
    \/ \E index \in 0..(Len(persons) - 2) :
          RoomToPush(historyIndex) /\ handleReorder(MoveDown(persons, index))
    \/ handleUndo
    \/ handleRedo
    \/ \E doc \in ImportDocs : RoomToPush(-1) /\ handleFileChange(doc)
    \/ handleReset

Spec == Init /\ [][Next]_vars

----------------------------------------------------------------------------
(* The editor on a couple, swapping the two rows: the history is bounded   *)
(* by pushHistory alone, so it fills up to HISTORY_LIMIT.                  *)

CapInit == Init /\ ~isMobile

CapNext ==
    \/ InitialLoad(CoupleDoc)
    \/ \E index \in 1..(Len(persons) - 1) : handleReorder(MoveUp(persons, index))
    \/ handleUndo
    \/ handleRedo
    \/ handleFileChange(CoupleDoc)
    \/ handleReset

CapSpec == CapInit /\ [][CapNext]_vars

----------------------------------------------------------------------------
(* The editor with files that fail to load.  A file either is no JSON      *)
(* text, or parses to a document; a document may lack its nodes list.      *)

\* data.nodes of a parsed document without a nodes list
Undefined == << [undefined |-> TRUE] >>

\* a file whose text JSON.parse rejects
UnparseableFile == [parses |-> FALSE]

\* a file whose text parses to the document `data`
ParsedFile(data) == [parses |-> TRUE, data |-> data]

\* a document with settings and no nodes list
NoNodesDoc == [nodes |-> Undefined, settings |-> notesSettings]

ListDefined == persons # Undefined

\* calculateLayout(persons): `persons.length` raises a TypeError when
\* persons is undefined
LayoutRaises(nodes) == nodes = Undefined

\* reader.onload for a file that ends in the catch branch and the alert:
\* JSON.parse raises, or loadData has run up to the error that
\* rebuildFlow's calculateLayout raises, after setSettings and the two
\* assignments to personsRef.current and before setNodes, setEdges and
\* pushHistory
handleFileChangeAlert(file) ==
    /\ Mounted
    /\ IF file.parses
       THEN /\ LayoutRaises(file.data.nodes)
            /\ settings' = file.data.settings
            /\ persons' = file.data.nodes
       ELSE UNCHANGED <<settings, persons>>
    /\ lastOp' = "alert"
    /\ lastCut' = 0
    /\ UNCHANGED <<flow, personHistory, historyIndex, isMobile, clock>>

FailingFiles == {UnparseableFile, ParsedFile(NoNodesDoc)}

\* a couple and their son
FamilyNodes ==
    << Person("2", "spouse", FALSE, <<>>, "1"),
       Person("1", "self", TRUE, <<>>, "2"),
       Person("4", "eldest_son", FALSE, <<"1", "2">>, NoId) >>

\* two documents with the nodes and settings of an exported one and other
\* edges: one edited by hand, one with the edges removed
HandEditedDoc ==
    [nodes |-> FamilyNodes, settings |-> defaultSettings,
     edges |-> << RelEdge("e1-2", "1", "2", "parent-child") >>]

StrippedDoc == [nodes |-> FamilyNodes, settings |-> defaultSettings, edges |-> <<>>]

StoredEdgesDocs == {Doc(FamilyNodes, defaultSettings), HandEditedDoc, StrippedDoc}

\* the lists with the persons of s in every order
Orderings(s) ==
    {[i \in 1..Len(s) |-> s[f[i]]] :
        f \in {g \in [1..Len(s) -> 1..Len(s)] :
                  \A i, j \in 1..Len(s) : g[i] = g[j] => i = j}}

\* the sample document with its persons in every order
PermutedSampleDocs == {Doc(nodes, defaultSettings) : nodes \in Orderings(sampleData)}

\* a couple ('3', '9') below the husband's two parents ('1', '2', a couple)
\* and the wife's one recorded parent ('4')
InLawsDoc ==
    Doc(<< Person("1", "self", TRUE, <<>>, "2"),
           Person("2", "spouse", FALSE, <<>>, "1"),
           Person("4", "other", FALSE, <<>>, NoId),
           Person("3", "eldest_son", FALSE, <<"1", "2">>, "9"),
           Person("9", "other", FALSE, <<"4">>, "3") >>, defaultSettings)

\* the documents the file input is given
FileDocs == ImportDocs \cup StoredEdgesDocs \cup PermutedSampleDocs \cup {InLawsDoc}

\* getCurrentData(): the document handed to the export
getCurrentData ==
    [version |-> "1.0.0", settings |-> settings, nodes |-> persons,
     edges |-> generateEdgesFromPersons(persons)]

\* the document the autosave interval writes to localStorage
AutoSaveData ==
    [version |-> "1.0.0", settings |-> settings, nodes |-> persons,
     edges |-> generateEdgesFromPersons(persons)]

\* handleDeletePerson raises on an undefined list (`.filter` of undefined)
\* before any state is touched
ImportNext ==
    \/ \E doc \in ImportDocs : InitialLoad(doc)
    \/ \E doc \in FileDocs : RoomToPush(-1) /\ handleFileChange(doc)
    \/ \E file \in FailingFiles : handleFileChangeAlert(file)
    \/ ListDefined /\ \E id \in IdsOf(persons) :
          RoomToPush(historyIndex) /\ handleDeletePerson(id)
    \/ handleUndo
    \/ handleRedo
    \/ handleReset

ImportSpec == Init /\ [][ImportNext]_vars

----------------------------------------------------------------------------
(* Properties of the generation assignment                                 *)

\* no two persons of the list share an id
UniqueIds(ps) == \A i, j \in 1..Len(ps) : ps[i].id = ps[j].id => i = j

\* a layout has been computed for a non-empty list
LaidOut == Mounted /\ persons # <<>>

\* the ids the BFS reached from the chosen root
Reached == BfsResult(sortSiblings(persons)).visited

\* the generation calculateLayout assigns to every person
Generation == GenerationOf(sortSiblings(persons))

\* <<P, Q>> for every person P whose spouseId Q names a person of the list
SpouseLinks(ps) ==
    {<<ps[i].id, ps[i].spouseId>> : i \in {n \in 1..Len(ps) : ps[n].spouseId \in IdsOf(ps)}}

\* <<P, Q>> for every person P and every Q of P.parentIds that names a
\* person of the list
ParentLinks(ps) ==
    UNION {{<<ps[i].id, ps[i].parentIds[k]>> :
               k \in {n \in 1..Len(ps[i].parentIds) : ps[i].parentIds[n] \in IdsOf(ps)}} :
           i \in 1..Len(ps)}

\* the list admits generations at all: levels can be given to the persons
\* so that every parent named is one level above the child and every spouse
\* named is on the level of the person
Levelled(ps) ==
    \E level \in [IdsOf(ps) -> 0..(Len(ps) - 1)] :
        /\ \A link \in ParentLinks(ps) : level[link[2]] = level[link[1]] - 1
        /\ \A link \in SpouseLinks(ps) : level[link[2]] = level[link[1]]

\* C1 as stated: in any list with unique ids, a person P and the spouse Q that
\* P.spouseId names have the same generation whenever the BFS reached both.
SpouseSameGeneration ==
    (LaidOut /\ UniqueIds(persons)) =>
        \A generation \in {Generation}, reached \in {Reached} :
            \A link \in SpouseLinks(persons) :
                (link[1] \in reached /\ link[2] \in reached) =>
                    generation[link[1]] = generation[link[2]]

\* C1 amended: in any list with unique ids whose parent and spouse links
\* admit generations (no person is, through the links, on two levels at
\* once), a person P and the spouse Q that P.spouseId names have the same
\* generation whenever the BFS reached both.
SpouseSameGenerationWhenLevelled ==
    (LaidOut /\ UniqueIds(persons) /\ Levelled(persons)) =>
        \A generation \in {Generation}, reached \in {Reached} :
            \A link \in SpouseLinks(persons) :
                (link[1] \in reached /\ link[2] \in reached) =>
                    generation[link[1]] = generation[link[2]]

\* a levelled list in which the BFS reached two spouses who are also linked
\* through a child of both
SpousesReachedBothWays ==
    /\ LaidOut /\ UniqueIds(persons) /\ Levelled(persons)
    /\ \E reached \in {Reached}, link \in SpouseLinks(persons) :
          /\ link[1] # link[2]
          /\ link[1] \in reached /\ link[2] \in reached
          /\ \E child \in IdsOf(persons) :
                /\ <<child, link[1]>> \in ParentLinks(persons)
                /\ <<child, link[2]>> \in ParentLinks(persons)

\* C2 as stated: in any list with unique ids, every parent Q that
\* P.parentIds names in the list and the BFS reached has generation(Q) =
\* generation(P) - 1.
ParentOneGenerationAbove ==
    (LaidOut /\ UniqueIds(persons)) =>
        \A generation \in {Generation}, reached \in {Reached} :
            \A link \in ParentLinks(persons) :
                link[2] \in reached => generation[link[2]] = generation[link[1]] - 1

\* C2 amended: in any list with unique ids whose parent and spouse links
\* admit generations, every parent Q that P.parentIds names in the list and
\* the BFS reached has generation(Q) = generation(P) - 1.
ParentOneGenerationAboveWhenLevelled ==
    (LaidOut /\ UniqueIds(persons) /\ Levelled(persons)) =>
        \A generation \in {Generation}, reached \in {Reached} :
            \A link \in ParentLinks(persons) :
                link[2] \in reached => generation[link[2]] = generation[link[1]] - 1

\* a levelled list in which the BFS reached a grandparent, a parent and a
\* child, the root not being the grandparent
ThreeGenerationsReached ==
    /\ LaidOut /\ UniqueIds(persons) /\ Levelled(persons)
    /\ \E generation \in {Generation}, reached \in {Reached} :
          \E up, down \in ParentLinks(persons) :
              /\ up[1] = down[2]
              /\ up[2] \in reached /\ down[2] \in reached
              /\ generation[up[2]] # 0

----------------------------------------------------------------------------
(* Properties of the horizontal placement                                  *)

\* genUnits after Pass 2, top generation first
PlacedUnits == LayoutOf(persons, isMobile).genUnits

UnitLeft(u) == RatSub(u.centerX, HalfWidth(u))

UnitRight(u) == RatAdd(u.centerX, HalfWidth(u))

\* every unit lies at least `gap` to the right of every unit whose centre is
\* not to its right; this is the spacing of the units adjacent in centre
\* order, the widths being positive
Spaced(units, gap) ==
    \A i, j \in 1..Len(units) :
        (i # j /\ RatLeq(units[i].centerX, units[j].centerX)) =>
            RatLeq(RatInt(gap), RatSub(UnitLeft(units[j]), UnitRight(units[i])))

CenteredUnits(layout, g) ==
    CenterUnits(BuildUnits(layout.sorted, layout.generationOf, layout.sortedGens[g],
                           isMobile),
                layout.sorted, layout.genUnits[g - 1])

----------------------------------------------------------------------------
(* Properties of the connectors                                            *)

\* the person records exactly two parents, both in the list
TwoParentsPresent(p) ==
    Len(p.parentIds) = 2 /\ Range(p.parentIds) \subseteq IdsOf(persons)

JunctionIds == {flow.junctionNodes[j].id : j \in 1..Len(flow.junctionNodes)}

\* the junction nodes with a connector to the child
JunctionsFeeding(childId) ==
    {j \in 1..Len(flow.junctionNodes) :
        \E e \in 1..Len(flow.edges) :
            /\ flow.edges[e].source = flow.junctionNodes[j].id
            /\ flow.edges[e].target = childId}

\* the connectors from a junction node to the child
JunctionConnectorsTo(childId) ==
    {e \in 1..Len(flow.edges) :
        flow.edges[e].target = childId /\ flow.edges[e].source \in JunctionIds}

\* the parent-child connectors that run from a recorded parent to the child
DirectConnectorsTo(p) ==
    {e \in 1..Len(flow.edges) :
        /\ flow.edges[e].target = p.id
        /\ flow.edges[e].source \in Range(p.parentIds)
        /\ flow.edges[e].type = "smoothstep"}

\* C4: every child that records exactly two parents, both in the list, is
\* fed by exactly one junction node through exactly one connector and by no
\* direct parent-to-child connector, and the children that share the
\* unordered parent pair are fed by the same junction node.
JunctionMerge ==
    (Mounted /\ UniqueIds(persons)) =>
        \A i \in 1..Len(persons) :
            TwoParentsPresent(persons[i]) =>
                /\ Cardinality(JunctionsFeeding(persons[i].id)) = 1
                /\ Cardinality(JunctionConnectorsTo(persons[i].id)) = 1
                /\ DirectConnectorsTo(persons[i]) = {}
                /\ \A j \in 1..Len(persons) :
                      (/\ TwoParentsPresent(persons[j])
                       /\ Range(persons[j].parentIds) = Range(persons[i].parentIds)) =>
                          JunctionsFeeding(persons[j].id) = JunctionsFeeding(persons[i].id)

\* two children record the same two parents, both in the list, in different
\* orders
PairSharedInBothOrders ==
    /\ Mounted /\ UniqueIds(persons)
    /\ \E i, j \in 1..Len(persons) :
          /\ TwoParentsPresent(persons[i]) /\ TwoParentsPresent(persons[j])
          /\ Range(persons[i].parentIds) = Range(persons[j].parentIds)
          /\ persons[i].parentIds # persons[j].parentIds

\* C10 as stated: every connector runs between persons of the list and
\* junction nodes of the same result, so a parentId or spouseId that names
\* no person produces no connector.
DanglingNeverConnected ==
    Mounted =>
        \A e \in 1..Len(flow.edges) :
            /\ flow.edges[e].source \in IdsOf(persons) \cup JunctionIds
            /\ flow.edges[e].target \in IdsOf(persons) \cup JunctionIds

----------------------------------------------------------------------------
(* Properties of the edit handlers                                         *)

\* if A.spouseId = B then B.spouseId = A, and nobody is their own spouse
SpouseSymmetric(ps) ==
    \A i \in 1..Len(ps) :
        ps[i].spouseId # NoId =>
            /\ ps[i].spouseId # ps[i].id
            /\ \E j \in 1..Len(ps) :
                  ps[j].id = ps[i].spouseId /\ ps[j].spouseId = ps[i].id

\* C5 as stated: a save on a list with a symmetric spouse relation, setting
\* the edited person's spouse to none or to another person of the list,
\* leaves the spouse relation symmetric.
SpouseSymmetryAfterSave ==
    [][(lastOp' = "save" /\ UniqueIds(persons) /\ SpouseSymmetric(persons))
          => SpouseSymmetric(persons')]_vars

\* the index in `before` of the k-th person that is not `id`
KeptIndex(before, id, k) ==
    CHOOSE i \in 1..Len(before) :
        /\ before[i].id # id
        /\ Cardinality({j \in 1..(i - 1) : before[j].id # id}) = k - 1

\* `after` is `before` without the person `id` and without any reference to
\* it, and is `before` in everything else
DeletedExactly(before, after, id) ==
    /\ id \notin IdsOf(after)
    /\ Len(after) = Cardinality({i \in 1..Len(before) : before[i].id # id})
    /\ \A k \in 1..Len(after) :
          LET old == before[KeptIndex(before, id, k)]
          IN  /\ after[k].id = old.id
              /\ after[k].relationship = old.relationship
              /\ after[k].isRepresentative = old.isRepresentative
              /\ id \notin Range(after[k].parentIds)
              /\ after[k].parentIds = SelectSeq(old.parentIds, LAMBDA q : q # id)
              /\ after[k].spouseId # id
              /\ old.spouseId # id => after[k].spouseId = old.spouseId

\* C6: handleDeletePerson(id) leaves a list without that person, without
\* that id in any parentIds or spouseId, and with every other field, every
\* other reference and the order of the remaining persons unchanged.
DeleteFrame ==
    [][lastOp' = "delete" =>
          \E id \in IdsOf(persons) : DeletedExactly(persons, persons', id)]_vars

\* a deletion has just removed a person whom one remaining person named as
\* a parent next to another parent, and whom another named as spouse
DeletedParentAndSpouse ==
    /\ lastOp = "delete"
    /\ Len(personHistory) >= 2
    /\ historyIndex = Len(personHistory) - 1
    /\ personHistory[Len(personHistory)] = persons
    /\ \E id \in IdsOf(personHistory[Len(personHistory) - 1]) \ IdsOf(persons) :
          \E i, j \in 1..Len(personHistory[Len(personHistory) - 1]) :
              LET before == personHistory[Len(personHistory) - 1]
              IN  /\ before[i].id # id /\ before[j].id # id
                  /\ id \in Range(before[i].parentIds)
                  /\ Len(before[i].parentIds) = 2
                  /\ before[j].spouseId = id
                  /\ DeletedExactly(before, persons, id)

----------------------------------------------------------------------------
(* Properties of the history                                               *)

\* the handlers that call updatePersons
Edits == {"add", "save", "delete", "reorder"}

\* the handlers that push a snapshot
Pushes == Edits \cup {"load", "import", "reset"}

\* C7: the history never holds more than 50 snapshots; every push (initial
\* load, add, save, delete, reorder, import, reset) leaves the pushed
\* snapshot as the last entry, and a push that keeps all 50 snapshots of a
\* full history drops the oldest one.
HistoryCapped ==
    /\ [](Len(personHistory) <= 50)
    /\ [][lastOp' \in Pushes =>
            /\ personHistory' # <<>>
            /\ personHistory'[Len(personHistory')] = persons'
            /\ (lastCut' = 0 /\ Len(personHistory) = 50) =>
                   personHistory' = Append(Tail(personHistory), persons')]_vars

\* a reorder has just pushed onto a full history: the snapshot of the
\* initial load is gone and the second snapshot is now the first
OldestDropped ==
    /\ lastOp = "reorder" /\ lastCut = 0
    /\ Len(personHistory) = 50
    /\ personHistory[1] = MoveUp(CoupleDoc.nodes, 1)
    /\ personHistory[50] = persons

\* C8: an edit (add, save, delete, reorder) made while snapshots lie after
\* the history cursor, that is after one or more undos, discards those
\* snapshots and appends its own: the new snapshot is the last entry,
\* historyIndex points at it, and redo is not available.
TruncateOnNewEdit ==
    [][(lastOp' \in Edits /\ historyIndex >= 0 /\ CanRedo) =>
          /\ personHistory' = Append(SubSeq(personHistory, 1, historyIndex + 1), persons')
          /\ historyIndex' = Len(personHistory') - 1
          /\ ~CanRedo']_vars

\* an edit has just discarded several snapshots that undos had left after
\* the cursor
EditAfterUndos ==
    /\ lastOp \in Edits
    /\ lastCut >= 2
    /\ historyIndex = Len(personHistory) - 1
    /\ personHistory[Len(personHistory)] = persons

----------------------------------------------------------------------------
(* Properties of the import                                                *)

\* C11 as stated: an import that ends in the alert leaves the person list,
\* the display settings, the history and historyIndex exactly as they were.
FailedImportChangesNothing ==
    [][lastOp' = "alert" =>
          UNCHANGED <<persons, settings, personHistory, historyIndex>>]_vars

\* C12: after every step that leaves the list defined, the document the
\* export and the autosave write has the edges generateEdgesFromPersons derives from its
\* nodes; and an import takes the person list and the settings from the
\* document and derives positions, junctions and connectors from the
\* imported nodes alone, whatever the document's edges field holds, so two
\* documents that differ in their edges only give the same result.
EdgesDerivedFromPersons ==
    [][/\ (Mounted' /\ ListDefined') =>
            \A doc \in {getCurrentData', AutoSaveData'} :
                /\ doc.nodes = persons'
                /\ doc.edges = generateEdgesFromPersons(doc.nodes)
       /\ lastOp' = "import" =>
            /\ \E doc \in FileDocs :
                  persons' = doc.nodes /\ settings' = doc.settings
            /\ \E nodes \in {persons'} :
                  flow' = FlowOf(nodes, calculateLayout(nodes, isMobile),
                                 generateEdgesFromPersons(nodes))]_vars

\* an import has just read the nodes that only the documents with other
\* edges carry, and the connectors shown are not those of the stored edges
StoredEdgesIgnored ==
    /\ lastOp = "import"
    /\ persons = FamilyNodes
    /\ \A doc \in {HandEditedDoc, StrippedDoc} :
          /\ doc.edges # generateEdgesFromPersons(persons)
          /\ flow.edges # buildFlowElements(doc.edges,
                                            calculateLayout(persons, isMobile)).edges
    /\ flow.edges = buildFlowElements(getCurrentData.edges,
                                      calculateLayout(persons, isMobile)).edges

----------------------------------------------------------------------------
(* Properties of the pipeline on the sample family                         *)

\* the x coordinate of the person node shown for `id`
ShownX(id) ==
    (CHOOSE n \in Range(flow.personNodes) : n.id = id).position.x

\* the connectors between a and b, in either direction
ConnectorsBetween(a, b) ==
    {e \in 1..Len(flow.edges) :
        \/ flow.edges[e].source = a /\ flow.edges[e].target = b
        \/ flow.edges[e].source = b /\ flow.edges[e].target = a}

\* C13: for the list A = '1' (self, representative, spouse '2'), B = '2'
\* (spouse '1'), C = '3' (parents ['1', '2']) in any order, A and B have
\* generation 0 and C generation 1, there is exactly one connector between A
\* and B and it is the spouse connector, exactly one junction node, at the
\* midpoint of the x positions of A and B, with exactly one connector from
\* it to C, and no direct connector between C and A or B.
SampleFamilyLayout ==
    (Mounted /\ persons \in Orderings(sampleData)) =>
        /\ \E generation \in {Generation} :
              generation["1"] = 0 /\ generation["2"] = 0 /\ generation["3"] = 1
        /\ Cardinality(ConnectorsBetween("1", "2")) = 1
        /\ \A e \in ConnectorsBetween("1", "2") : flow.edges[e].type = "straight"
        /\ Len(flow.junctionNodes) = 1
        /\ flow.junctionNodes[1].x = RatDivInt(RatAdd(ShownX("1"), ShownX("2")), 2)
        /\ Cardinality({e \in 1..Len(flow.edges) :
                           /\ flow.edges[e].source = flow.junctionNodes[1].id
                           /\ flow.edges[e].target = "3"}) = 1
        /\ Cardinality(JunctionConnectorsTo("3")) = 1
        /\ ConnectorsBetween("1", "3") = {} /\ ConnectorsBetween("2", "3") = {}

\* the sample family is shown with the child listed first and the spouse
\* before the representative, on the narrow viewport
SampleFamilyChildFirst ==
    /\ Mounted /\ isMobile
    /\ persons = << sampleData[3], sampleData[2], sampleData[1] >>
    /\ Len(flow.personNodes) = 3
    /\ ShownX("1") # ShownX("2")

----------------------------------------------------------------------------
(* Properties of the sibling order and the root                            *)

\* a and b record parents, and the same set of them
SameParents(a, b) ==
    HasParents(a) /\ HasParents(b) /\ Range(a.parentIds) = Range(b.parentIds)

\* a comes before b by relationship rank, the smaller id deciding a tie
RankedBefore(a, b) ==
    \/ childSortOrder(a.relationship) < childSortOrder(b.relationship)
    \/ /\ childSortOrder(a.relationship) = childSortOrder(b.relationship)
       /\ IdLess(a.id, b.id)

\* the relationships with a rank, in the order the ranks give them
RankedRelationships ==
    << "eldest_son", "eldest_daughter", "second_son", "second_daughter",
       "third_son", "third_daughter", "grandchild", "other" >>

\* C14: the ranks ascend from eldest_son to other, and a relationship
\* without a rank counts as the last; in the list sortSiblings returns, any two persons who record the
\* same set of parents stand in the order of their relationship rank
\* (childSortOrder, 99 for a relationship without a rank), ties broken by
\* ascending id, whatever the order of the input list.
SiblingsInRankOrder ==
    /\ \A k \in 1..(Len(RankedRelationships) - 1) :
          childSortOrder(RankedRelationships[k]) < childSortOrder(RankedRelationships[k + 1])
    /\ \A rel \in {"self", "spouse", "father"} :
          childSortOrder(rel) = childSortOrder("other")
    /\ (LaidOut /\ UniqueIds(persons)) =>
        \A sorted \in {sortSiblings(persons)} :
            \A i, j \in 1..Len(sorted) :
                (i < j /\ SameParents(sorted[i], sorted[j])) =>
                    RankedBefore(sorted[i], sorted[j])

\* the list holds an eldest daughter before an eldest son of the same
\* parents, recorded in another order, the son having the larger id
DaughterListedBeforeSon ==
    /\ LaidOut /\ UniqueIds(persons)
    /\ \E i, j \in 1..Len(persons) :
          /\ i < j
          /\ SameParents(persons[i], persons[j])
          /\ persons[i].parentIds # persons[j].parentIds
          /\ persons[i].relationship = "eldest_daughter"
          /\ persons[j].relationship = "eldest_son"
          /\ IdLess(persons[i].id, persons[j].id)

\* the position k of the sorted list is the one the fallback order picks
PickedPosition(sorted, k) ==
    IF \E j \in 1..Len(sorted) : sorted[j].isRepresentative
    THEN /\ sorted[k].isRepresentative
         /\ \A j \in 1..(k - 1) : ~sorted[j].isRepresentative
    ELSE IF \E j \in 1..Len(sorted) : sorted[j].relationship = "self"
         THEN /\ sorted[k].relationship = "self"
              /\ \A j \in 1..(k - 1) : sorted[j].relationship # "self"
         ELSE k = 1

\* C15: on every non-empty list a root is chosen, and it is the first
\* person of the sibling-sorted list with isRepresentative, failing that the
\* first with relationship 'self', failing that the first person of the
\* sibling-sorted list; the BFS starts from it.
RootFallbackOrder ==
    LaidOut =>
        \A sorted \in {sortSiblings(persons)} :
            \E k \in 1..Len(sorted) :
                /\ PickedPosition(sorted, k)
                /\ RootOf(sorted) = sorted[k]
                /\ BfsResult(sorted).enqueued[1] = sorted[k].id

\* nobody is representative, and the person with relationship 'self' is
\* not the first of the sibling-sorted list
RootBySelfRole ==
    /\ LaidOut
    /\ \A i \in 1..Len(persons) : ~persons[i].isRepresentative
    /\ \E sorted \in {sortSiblings(persons)} :
          /\ sorted[1].relationship # "self"
          /\ RootOf(sorted).relationship = "self"

----------------------------------------------------------------------------
(* Properties of the traversal                                             *)

\* the root calculateLayout chooses
Root == RootOf(sortSiblings(persons))

\* C16: on every non-empty list the chosen root has generation 0 when the
\* generation assignment ends, also when the root is its own parent or
\* spouse or lies on a cycle of parent links.
RootGenerationZero ==
    LaidOut => \A generation \in {Generation} : generation[Root.id] = 0

\* the root is its own parent and its own spouse, or the root and one of
\* its children are parents of each other
RootOnCycle ==
    /\ LaidOut /\ UniqueIds(persons)
    /\ \E root \in {Root} :
          \/ root.id \in Range(root.parentIds) /\ root.spouseId = root.id
          \/ \E i \in 1..Len(persons) :
                /\ persons[i].id # root.id
                /\ persons[i].id \in Range(root.parentIds)
                /\ root.id \in Range(persons[i].parentIds)

\* C17: on every non-empty list the BFS ends with an empty queue, every
\* id was enqueued at most once, and the ids enqueued are exactly the ids
\* whose generation the BFS set, each a person of the list; no lookup of the
\* traversal fails.
BfsVisitsOnce ==
    LaidOut =>
        \A st \in {BfsResult(sortSiblings(persons))} :
            /\ st.queue = <<>>
            /\ \A i, j \in 1..Len(st.enqueued) : st.enqueued[i] = st.enqueued[j] => i = j
            /\ Range(st.enqueued) = DOMAIN st.generationOf
            /\ Range(st.enqueued) = st.visited
            /\ st.visited \subseteq IdsOf(persons)

\* the BFS went round a cycle of parent links that does not start at the
\* root, or met a person who is spouse and child of the same person
CycleTraversed ==
    /\ LaidOut /\ UniqueIds(persons)
    /\ \E reached \in {Reached}, root \in {Root} :
          \E i, j \in 1..Len(persons) :
              /\ persons[i].id \in reached /\ persons[j].id \in reached
              /\ persons[i].id # persons[j].id
              /\ persons[j].id \in Range(persons[i].parentIds)
              /\ \/ persons[i].id \in Range(persons[j].parentIds) /\ root.id # persons[j].id
                 \/ persons[j].spouseId = persons[i].id

----------------------------------------------------------------------------
(* Properties of the pipeline as a whole                                   *)

\* C18: on every list the editor holds, the empty one and the ones with
\* dangling references, self-references, more than two parents and several
\* or no representatives among them, calculateLayout returns a position map
\* (the empty map for the empty list, a position for each person otherwise),
\* generateEdgesFromPersons and buildFlowElements return their lists, and
\* rebuildFlow has handed over a node for every person.
PipelineTotal ==
    Mounted =>
        \E positions \in {calculateLayout(persons, isMobile)},
           relEdges \in {generateEdgesFromPersons(persons)} :
            /\ DOMAIN positions = IdsOf(persons)
            /\ persons = <<>> => positions = <<>>
            /\ \A id \in DOMAIN positions :
                  positions[id].x.d > 0 /\ positions[id].y \in Int
            /\ \A e \in 1..Len(relEdges) :
                  relEdges[e].type \in {"parent-child", "spouse"}
            /\ flow = FlowState(persons, positions, buildFlowElements(relEdges, positions))
            /\ Len(flow.personNodes) = Len(persons)

\* the list laid out holds a person who is their own parent and spouse, a
\* child with more than two parents and several representatives
AwkwardListLaidOut ==
    /\ LaidOut
    /\ \E i \in 1..Len(persons) :
          persons[i].spouseId = persons[i].id /\ persons[i].id \in Range(persons[i].parentIds)
    /\ \E i \in 1..Len(persons) : Len(persons[i].parentIds) > 2
    /\ Cardinality({i \in 1..Len(persons) : persons[i].isRepresentative}) >= 2
    /\ Len(flow.personNodes) = Len(persons)

\* the unordered pairs {P, Q} with P.spouseId = Q for a person P of the list
SpousePairs(ps) ==
    {{ps[i].id, ps[i].spouseId} : i \in {n \in 1..Len(ps) : ps[n].spouseId # NoId}}

\* the edges of the given type that join the two ends of a pair
EdgesJoining(edges, type, pair) ==
    {e \in 1..Len(edges) :
        edges[e].type = type /\ {edges[e].source, edges[e].target} = pair}

\* C19: generateEdgesFromPersons emits exactly one spouse edge for every
\* unordered pair {P, Q} with P.spouseId = Q or Q.spouseId = P and no spouse
\* edge for any other pair, and the connectors handed over hold exactly one
\* straight person-to-person connector for each of these edges.
OneSpouseEdgePerPair ==
    Mounted =>
        \E relEdges \in {generateEdgesFromPersons(persons)}, pairs \in {SpousePairs(persons)} :
            /\ \A pair \in pairs :
                  /\ Cardinality(EdgesJoining(relEdges, "spouse", pair)) = 1
                  /\ Cardinality(EdgesJoining(flow.edges, "straight", pair)) = 1
            /\ \A e \in 1..Len(relEdges) :
                  relEdges[e].type = "spouse" =>
                      /\ {relEdges[e].source, relEdges[e].target} \in pairs
                      /\ Cardinality({c \in 1..Len(flow.edges) :
                                        flow.edges[c].id = relEdges[e].id}) = 1
            /\ \A c \in 1..Len(flow.edges) :
                  flow.edges[c].type = "straight" =>
                      {flow.edges[c].source, flow.edges[c].target} \in pairs

\* a couple who name each other is laid out next to a person whose spouseId
\* is not answered, and each pair has its connector
CoupleAndOneSidedLinkLaidOut ==
    /\ LaidOut
    /\ \E i, j \in 1..Len(persons) :
          /\ persons[i].id # persons[j].id
          /\ persons[i].spouseId = persons[j].id
          /\ persons[j].spouseId = persons[i].id
          /\ Cardinality(EdgesJoining(flow.edges, "straight",
                                      {persons[i].id, persons[j].id})) = 1
    /\ \E i, j \in 1..Len(persons) :
          /\ persons[i].id # persons[j].id
          /\ persons[i].spouseId = persons[j].id
          /\ persons[j].spouseId # persons[i].id
          /\ Cardinality(EdgesJoining(flow.edges, "straight",
                                      {persons[i].id, persons[j].id})) = 1

----------------------------------------------------------------------------
(* The editor started on the sample family and used through the dialog,    *)
(* the add and delete buttons and undo / redo only.                        *)

SampleNext ==
    \/ InitialLoad(SampleDoc)
    \/ RoomToAdd /\ RoomToPush(historyIndex) /\ handleAddPerson
    \/ \E i \in 1..Len(persons) : \E form \in FormsFor(persons, persons[i]) :
          RoomToSave /\ handleSavePerson(form)
    \/ \E id \in IdsOf(persons) : RoomToPush(historyIndex) /\ handleDeletePerson(id)
    \/ handleUndo
    \/ handleRedo

SampleSpec == Init /\ [][SampleNext]_vars

\* the persons of the list that carry isRepresentative = true
Representatives(ps) == {i \in 1..Len(ps) : ps[i].isRepresentative}

\* C20: from the sample data on, through every add, save, delete, undo and
\* redo, at most one person of the list carries isRepresentative = true.
AtMostOneRepresentative ==
    Mounted => Cardinality(Representatives(persons)) <= 1

----------------------------------------------------------------------------
(* Properties of the passes of the layout, one by one                      *)

\* how often x occurs in s
Occurrences(s, x) == Cardinality({i \in 1..Len(s) : s[i] = x})

\* the position in ps of the first person whose parent key is p's
FirstOfGroup(ps, p) ==
    CHOOSE i \in 1..Len(ps) :
        /\ HasParents(ps[i]) /\ ParentKey(ps[i]) = ParentKey(p)
        /\ \A j \in 1..(i - 1) : ~(HasParents(ps[j]) /\ ParentKey(ps[j]) = ParentKey(p))

\* C21: sortSiblings returns a permutation of the list and leaves the list
\* as it was (the nodes handed over afterwards follow the list's order);
\* the persons without parents come first in their order in the list, then
\* the sibling groups in the order in which their first members stand in
\* the list, each group in one piece and sorted by rank and id.
SortSiblingsContract ==
    Mounted =>
        \E sorted \in {sortSiblings(persons)}, n \in {Len(NoParentOf(persons))} :
            /\ Len(sorted) = Len(persons)
            /\ \A i \in 1..Len(persons) :
                  Occurrences(sorted, persons[i]) = Occurrences(persons, persons[i])
            /\ \A i \in 1..Len(persons) : flow.personNodes[i].id = persons[i].id
            /\ SubSeq(sorted, 1, n) = SelectSeq(persons, LAMBDA p : p.parentIds = <<>>)
            /\ \A i, j \in (n + 1)..Len(sorted) :
                  i < j =>
                      /\ FirstOfGroup(persons, sorted[i]) <= FirstOfGroup(persons, sorted[j])
                      /\ ParentKey(sorted[i]) = ParentKey(sorted[j]) =>
                            ~SiblingLess(sorted[j], sorted[i])

\* the list holds two sibling groups and a person without parents behind a
\* person with parents, and sorting moves somebody
TwoGroupsResorted ==
    /\ Mounted
    /\ sortSiblings(persons) # persons
    /\ \E i, j \in 1..Len(persons) :
          /\ HasParents(persons[i]) /\ HasParents(persons[j])
          /\ ParentKey(persons[i]) # ParentKey(persons[j])
    /\ \E i, j \in 1..Len(persons) :
          i < j /\ HasParents(persons[i]) /\ ~HasParents(persons[j])

\* the ids in the units before position k
PlacedBefore(units, k) == UNION {Range(units[j].ids) : j \in 1..(k - 1)}

\* the first person of genPersons that is not among `placed`
FirstUnplaced(genPersons, placed) ==
    SelectSeq(genPersons, LAMBDA p : p.id \notin placed)[1]

\* the unit at position k is the one the walk builds there: its first member
\* is the first person not yet placed, joined by the spouse when spouseId
\* names a person of the generation not yet placed, alone otherwise
UnitAsPaired(units, k, genPersons, mobile) ==
    \E placed \in {PlacedBefore(units, k)} :
        \E person \in {FirstUnplaced(genPersons, placed)} :
            IF /\ person.spouseId # NoId
               /\ person.spouseId \in IdsOf(genPersons)
               /\ person.spouseId \notin placed
            THEN /\ units[k].ids = <<person.id, person.spouseId>>
                 /\ units[k].width = SPOUSE_GAP(mobile) + NODE_WIDTH(mobile)
            ELSE /\ units[k].ids = <<person.id>>
                 /\ units[k].width = NODE_WIDTH(mobile)

\* C22: in every generation, walked in sorted-list order, a person not yet
\* placed whose spouseId names a person of the same generation not yet
\* placed forms the two-member unit [person, spouse] of width SPOUSE_GAP +
\* NODE_WIDTH, and a one-member unit of width NODE_WIDTH otherwise; when the
\* spouse relation is symmetric, every couple of one generation is one unit.
UnitPairing ==
    LaidOut =>
        \E lay \in {LayoutOf(persons, isMobile)} :
            \A g \in 1..Len(lay.sortedGens) :
                \E genPersons \in {GenPersons(lay.sorted, lay.generationOf, lay.sortedGens[g])},
                   units \in {BuildUnits(lay.sorted, lay.generationOf, lay.sortedGens[g], isMobile)} :
                    /\ \A k \in 1..Len(units) : UnitAsPaired(units, k, genPersons, isMobile)
                    /\ PlacedBefore(units, Len(units) + 1) = IdsOf(genPersons)
                    /\ (UniqueIds(persons) /\ SpouseSymmetric(persons)) =>
                          \A i \in 1..Len(genPersons) :
                              genPersons[i].spouseId \in IdsOf(genPersons) =>
                                  \E k \in 1..Len(units) :
                                      Range(units[k].ids) =
                                          {genPersons[i].id, genPersons[i].spouseId}

\* a couple shares a unit while a person whose spouse stands in another
\* generation is a unit alone
CoupleUnitAndLoneSpouse ==
    /\ LaidOut
    /\ \E lay \in {LayoutOf(persons, isMobile)} :
          /\ \E g \in 1..Len(lay.genUnits) : \E k \in 1..Len(lay.genUnits[g]) :
                /\ Len(lay.genUnits[g][k].ids) = 2
                /\ lay.genUnits[g][k].ids[1] # lay.genUnits[g][k].ids[2]
          /\ \E i \in 1..Len(persons) :
                /\ persons[i].spouseId \in IdsOf(persons)
                /\ lay.generationOf[persons[i].spouseId] # lay.generationOf[persons[i].id]
                /\ \E g \in 1..Len(lay.genUnits) : \E k \in 1..Len(lay.genUnits[g]) :
                      lay.genUnits[g][k].ids = <<persons[i].id>>

\* the positions in parentUnits of the units found for the parentIds of the
\* members of `unit`: for each parentId the first unit that holds it
ParentUnitsFound(unit, sorted, parentUnits) ==
    {j \in 1..Len(parentUnits) :
        \E m \in 1..Len(unit.ids) :
            \E pid \in Range(PersonOf(sorted, unit.ids[m]).parentIds) :
                /\ pid \in Range(parentUnits[j].ids)
                /\ \A i \in 1..(j - 1) : pid \notin Range(parentUnits[i].ids)}

\* the average of the centers of the units at the positions `found`, each
\* unit counted once
AverageCenter(parentUnits, found) ==
    RatDivInt(RatSum([n \in 1..Cardinality(found) |->
                         parentUnits[Ascending(found)[n]].centerX]),
              Cardinality(found))

\* C23 as stated: in every generation below the top, a unit for which a parent unit
\* is found in the generation before has, before the overlaps are resolved,
\* the average of the centers of the parent units that hold a parentId of
\* one of its members, each parent unit counted once; a unit without a
\* parent unit found keeps its default center.
ParentCentering ==
    LaidOut =>
        \E lay \in {LayoutOf(persons, isMobile)} :
            \A g \in 2..Len(lay.sortedGens) :
                \E units \in {BuildUnits(lay.sorted, lay.generationOf, lay.sortedGens[g], isMobile)} :
                    \A k \in 1..Len(units) :
                        \E found \in {ParentUnitsFound(units[k], lay.sorted, lay.genUnits[g - 1])} :
                            CenterUnit(units[k], lay.sorted, lay.genUnits[g - 1]).centerX =
                                IF found = {} THEN units[k].centerX
                                ELSE AverageCenter(lay.genUnits[g - 1], found)

\* the smallest generation number assigned
MinGeneration(generationOf) ==
    CHOOSE g \in {generationOf[id] : id \in DOMAIN generationOf} :
        \A id \in DOMAIN generationOf : g <= generationOf[id]

\* the members of `unit` stand where Pass 3 is said to put them
UnitPlaced(unit, positions, mobile) ==
    IF Len(unit.ids) = 2
    THEN /\ positions[unit.ids[1]].x = RatSub(unit.centerX, Rat(SPOUSE_GAP(mobile), 2))
         /\ positions[unit.ids[2]].x = RatAdd(unit.centerX, Rat(SPOUSE_GAP(mobile), 2))
         /\ positions[unit.ids[1]].y = positions[unit.ids[2]].y
    ELSE positions[unit.ids[1]].x = unit.centerX

\* the references <<m, k>> of `unit` to the parent unit at position j: the
\* k-th parentId of the m-th member has that unit as the first that holds it
ReferencesTo(unit, sorted, parentUnits, j) ==
    {mk \in (1..Len(unit.ids)) \X (1..Len(sorted)) :
        /\ mk[2] <= Len(PersonOf(sorted, unit.ids[mk[1]]).parentIds)
        /\ \E pid \in {PersonOf(sorted, unit.ids[mk[1]]).parentIds[mk[2]]} :
              /\ pid \in Range(parentUnits[j].ids)
              /\ \A i \in 1..(j - 1) : pid \notin Range(parentUnits[i].ids)}

\* the centers of the units at the positions `found`, each multiplied by the
\* number of references to it
WeightedCenters(unit, sorted, parentUnits, found) ==
    [n \in 1..Cardinality(found) |->
        Rat(parentUnits[Ascending(found)[n]].centerX.n
                * Cardinality(ReferencesTo(unit, sorted, parentUnits, Ascending(found)[n])),
            parentUnits[Ascending(found)[n]].centerX.d)]

\* the number of references of `unit` to the units at the positions `found`
ReferenceCount(unit, sorted, parentUnits, found) ==
    Cardinality(UNION {ReferencesTo(unit, sorted, parentUnits, j) \X {j} : j \in found})

\* C23 amended: in every generation below the top, a unit for which a
\* parent unit is found has, before the overlaps are resolved, the average
\* of the centers collected over its members' parentIds: every parentId
\* that finds a parent unit contributes that unit's center once, so a
\* parent unit found by two parentIds counts twice; a unit without a parent
\* unit found keeps its default center.
ParentCenteringPerReference ==
    (LaidOut /\ ListDefined) =>
        \E lay \in {LayoutOf(persons, isMobile)} :
            \A g \in 2..Len(lay.sortedGens) :
                \E units \in {BuildUnits(lay.sorted, lay.generationOf, lay.sortedGens[g], isMobile)} :
                    \A k \in 1..Len(units) :
                        \E found \in {ParentUnitsFound(units[k], lay.sorted, lay.genUnits[g - 1])} :
                            CenterUnit(units[k], lay.sorted, lay.genUnits[g - 1]).centerX =
                                IF found = {} THEN units[k].centerX
                                ELSE RatDivInt(
                                        RatSum(WeightedCenters(units[k], lay.sorted,
                                                               lay.genUnits[g - 1], found)),
                                        ReferenceCount(units[k], lay.sorted,
                                                       lay.genUnits[g - 1], found))

\* a couple is laid out below two parent units of which the couple names
\* one twice and the other once
CoupleBelowUnevenParents ==
    /\ LaidOut
    /\ \E lay \in {LayoutOf(persons, isMobile)} :
          \E g \in 2..Len(lay.sortedGens) :
              \E k \in 1..Len(lay.genUnits[g]) :
                  \E i, j \in 1..Len(lay.genUnits[g - 1]) :
                      /\ Cardinality(ReferencesTo(lay.genUnits[g][k], lay.sorted,
                                                  lay.genUnits[g - 1], i)) = 2
                      /\ Cardinality(ReferencesTo(lay.genUnits[g][k], lay.sorted,
                                                  lay.genUnits[g - 1], j)) = 1

\* C24: every person's y is (generation - minGeneration) * GENERATION_GAP;
\* the first member of a two-member unit stands at the unit's center less
\* half of SPOUSE_GAP, the second at the center plus half of SPOUSE_GAP, at
\* the same y; the member of a one-member unit stands at the unit's center.
PositionsFinal ==
    LaidOut =>
        \E lay \in {LayoutOf(persons, isMobile)} :
            /\ \A id \in IdsOf(persons) :
                  lay.positions[id].y =
                      (lay.generationOf[id] - MinGeneration(lay.generationOf))
                          * GENERATION_GAP(isMobile)
            /\ \A g \in 1..Len(lay.genUnits) : \A k \in 1..Len(lay.genUnits[g]) :
                  UnitPlaced(lay.genUnits[g][k], lay.positions, isMobile)

\* the connectors that run to the child from something that is no junction
PlainConnectorsTo(childId) ==
    {e \in 1..Len(flow.edges) :
        /\ flow.edges[e].target = childId
        /\ flow.edges[e].type = "smoothstep"
        /\ flow.edges[e].source \notin JunctionIds}

\* C25: a child that records one parent, or three or more, has one direct
\* connector for each recorded parent edge and no connector from a junction
\* node, and every junction node there is belongs to the parent pair of a
\* child that records exactly two parents.
DirectConnectorsUnlessTwoParents ==
    (Mounted /\ UniqueIds(persons)) =>
        /\ \A i \in 1..Len(persons) :
              (Len(persons[i].parentIds) = 1 \/ Len(persons[i].parentIds) >= 3) =>
                  /\ Cardinality(PlainConnectorsTo(persons[i].id)) = Len(persons[i].parentIds)
                  /\ \A pid \in Range(persons[i].parentIds) :
                        Cardinality({e \in PlainConnectorsTo(persons[i].id) :
                                        flow.edges[e].source = pid})
                            = Len(SelectSeq(persons[i].parentIds, LAMBDA q : q = pid))
                  /\ JunctionConnectorsTo(persons[i].id) = {}
        /\ \A n \in 1..Len(flow.junctionNodes) :
              \E j \in 1..Len(persons) :
                  /\ Len(persons[j].parentIds) = 2
                  /\ flow.junctionNodes[n].id = JunctionId(PairKey(persons[j].parentIds))

\* a child with one parent and a child with three parents are laid out next
\* to a child fed from a junction node
OneTwoAndThreeParents ==
    /\ Mounted /\ UniqueIds(persons)
    /\ \E i \in 1..Len(persons) :
          Len(persons[i].parentIds) = 1 /\ PlainConnectorsTo(persons[i].id) # {}
    /\ \E i \in 1..Len(persons) :
          Len(persons[i].parentIds) >= 3 /\ PlainConnectorsTo(persons[i].id) # {}
    /\ \E i \in 1..Len(persons) :
          Len(persons[i].parentIds) = 2 /\ JunctionConnectorsTo(persons[i].id) # {}

\* b is a parent, a child or the named spouse of a, both being in the list
Linked(ps, a, b) ==
    \E i, j \in 1..Len(ps) :
        /\ ps[i].id = a /\ ps[j].id = b
        /\ \/ b \in Range(ps[i].parentIds)
           \/ a \in Range(ps[j].parentIds)
           \/ ps[i].spouseId = b

RECURSIVE LinkClosure(_, _)
\* the ids that a chain of such links joins to one of `ids`
LinkClosure(ps, ids) ==
    LET next == ids \cup {b \in IdsOf(ps) : \E a \in ids : Linked(ps, a, b)}
    IN  IF next = ids THEN ids ELSE LinkClosure(ps, next)

\* C26: the BFS reaches exactly the persons that a chain of parent, child or
\* spouseId links joins to the root; every other person of the list has
\* generation 0, and the position map has one entry for every person of the
\* list, reached or not, which is the position of that person's node.
UnreachedGetGenerationZero ==
    (LaidOut /\ UniqueIds(persons)) =>
        \E lay \in {LayoutOf(persons, isMobile)} :
            \E chained \in {LinkClosure(persons, {RootOf(lay.sorted).id})} :
                /\ Reached = chained
                /\ \A id \in IdsOf(persons) \ chained :
                      /\ lay.generationOf[id] = 0
                      /\ lay.positions[id].y =
                            (0 - lay.sortedGens[1]) * GENERATION_GAP(isMobile)
                /\ DOMAIN calculateLayout(persons, isMobile) = IdsOf(persons)
                /\ \A i \in 1..Len(persons) :
                      flow.personNodes[i].position = lay.positions[persons[i].id]

\* a person no link joins to the root is laid out beside a root that has a
\* parent, so that generation 0 is not the top row
UnreachedBesideRootWithParent ==
    /\ LaidOut /\ UniqueIds(persons)
    /\ IdsOf(persons) \ Reached # {}
    /\ \E id \in Reached : Generation[id] < 0
    /\ \A id \in IdsOf(persons) \ Reached :
          (CHOOSE n \in Range(flow.personNodes) : n.id = id).position.y > 0

----------------------------------------------------------------------------
(* Properties of the undo history                                          *)

\* C27: after the initial load and after every add, save, delete, reorder,
\* undo, redo, import and reset, historyIndex lies between 0 and the last
\* index of personHistory, and the snapshot it points at is the list held.
HistoryCursorOnCurrent ==
    Mounted =>
        /\ 0 <= historyIndex
        /\ historyIndex <= Len(personHistory) - 1
        /\ personHistory[historyIndex + 1] = persons

\* C28: an undo taken at historyIndex > 0 leaves a state in which redo is
\* possible and leads back to the list and the historyIndex from before the
\* undo, and neither move touches personHistory; undo moves only from an
\* index above 0 and redo only from an index below the last, so that at
\* index 0 and at the last index they change nothing.
UndoRedoInverse ==
    [][/\ lastOp' = "undo" =>
            /\ historyIndex > 0
            /\ personHistory' = personHistory
            /\ CanRedo'
            /\ historyIndex' + 1 = historyIndex
            /\ personHistory'[historyIndex' + 2] = persons
       /\ lastOp' = "redo" =>
            /\ historyIndex < Len(personHistory) - 1
            /\ personHistory' = personHistory]_vars

----------------------------------------------------------------------------
(* Properties of the connectors and the units on irregular lists           *)

\* the connector at position e shows the link from parent q to the child:
\* it runs from q itself, or from the junction node of a pair that holds q
ShowsParentLink(e, q, childId) ==
    /\ flow.edges[e].target = childId
    /\ \/ flow.edges[e].source = q
       \/ /\ flow.edges[e].source \in JunctionIds
          /\ \E other \in Range(IdOrder) :
                flow.edges[e].source = JunctionId(PairKey(<<q, other>>))

\* C29: for every child and every id of its parentIds that names a person
\* of the list, the connectors hold a direct connector from that parent to
\* the child or a connector to the child from the junction node of a parent
\* pair that holds that parent, whatever the child's other parentId names.
ParentLinksShown ==
    (Mounted /\ UniqueIds(persons)) =>
        \A i \in 1..Len(persons) :
            \A q \in Range(persons[i].parentIds) \cap IdsOf(persons) :
                \E e \in 1..Len(flow.edges) : ShowsParentLink(e, q, persons[i].id)

\* the places <<k, m>> at which id stands in the units: member m of unit k
PlacesOf(units, id) ==
    {km \in (1..Len(units)) \X {1, 2} :
        km[2] <= Len(units[km[1]].ids) /\ units[km[1]].ids[km[2]] = id}

\* C30: in a list with unique ids, every person stands at exactly one place
\* in the units of its generation, never in two units and never twice in
\* one, and the units of a generation hold no one else; this includes the
\* lists in which a spouseId is not answered, names a person of another
\* generation or names the person who carries it.
UnitsPartitionGeneration ==
    (LaidOut /\ UniqueIds(persons)) =>
        \E lay \in {LayoutOf(persons, isMobile)} :
            \A g \in 1..Len(lay.sortedGens) :
                \E genIds \in {IdsOf(GenPersons(lay.sorted, lay.generationOf, lay.sortedGens[g]))} :
                    /\ \A id \in genIds :
                          Cardinality(PlacesOf(lay.genUnits[g], id)) = 1
                    /\ \A k \in 1..Len(lay.genUnits[g]) :
                          Range(lay.genUnits[g][k].ids) \subseteq genIds

====
